---------------------------- MODULE Spec2Model ----------------------------
(***************************************************************************)
(* A model of form_submission.js: the Google Forms submission handler that *)
(* creates a Drive folder, renames and moves the uploaded files, and sends *)
(* a notification, together with the trigger registration routine.         *)
(*                                                                         *)
(* JavaScript strings are modelled as sequences of one-character strings,  *)
(* so that the regular expressions, lastIndexOf, slice, substring and trim *)
(* of the source are computed character by character.  JavaScript objects  *)
(* used as maps are functions from keys (strings) to values.               *)
(***************************************************************************)
EXTENDS Integers, Sequences, FiniteSets, TLC

VARIABLES
    \* ---- the platform (Drive and the project's triggers) ----
    driveFiles,     \* file id -> [name, parent]: the Drive files of the uploads
    folders,        \* the folders created in the target drive, in creation order
    triggers,       \* ScriptApp.getProjectTriggers(): a sequence of triggers
    initLog,        \* outcome of each initialize() call, in order
    \* ---- the submission event e ----
    submission,     \* e.response.getItemResponses(): a sequence of item responses
    \* ---- one entry per invocation of onFormSubmit ----
    pc,             \* the statement the invocation is about to execute
    timestamp,      \* const timestamp           (line 105)
    responseMap,    \* const responseMap         (line 110)
    folderName,     \* const folderName          (line 118)
    emailSubject,   \* const emailSubject        (line 119)
    newFolder,      \* const newFolder           (line 123): index into folders, 0 = none
    cursor,         \* position of processAndRenameFiles: <<question, file>>
    routed,         \* per-file outcomes of processAndRenameFiles, in order
    steps,          \* the statements executed so far, in order
    raisedAt,       \* the statement whose exception reached the catch block
    mail,           \* MailApp.sendEmail calls made by the invocation, in order
    \* ---- a single call of a pure function, for the claims about them ----
    args,           \* the function called and its arguments
    ret             \* its return value, once it has returned

-----------------------------------------------------------------------------
(* Bounds of the model *)

\* longest original file name enumerated for the naming functions
MaxNameLen == 5
\* most segments (literal text or {token}) in an enumerated template
MaxSegs == 3
\* most uploaded files in one submission
MaxFiles == 3
\* most item responses enumerated for buildFolderName
MaxItems == 3
\* most triggers in the project before initialize() runs
MaxTriggers == 3
\* most initialize() calls in one behaviour
MaxInits == 2

\* longest text given to escapeHtml
MaxTextLen == 4

\* longest template written character by character
MaxTemplateLen == 6

-----------------------------------------------------------------------------
(* JavaScript string primitives *)

Max(S) == CHOOSE x \in S : \A y \in S : y <= x

Min(S) == CHOOSE x \in S : \A y \in S : x <= y

BoundedSeq(S, n) == UNION {[1..k -> S] : k \in 0..n}

\* true iff pat occurs in s at the 0-based index i
OccursAt(s, pat, i) ==
    /\ i >= 0
    /\ i + Len(pat) <= Len(s)
    /\ SubSeq(s, i + 1, i + Len(pat)) = pat

\* String.prototype.lastIndexOf: the last 0-based index of pat in s, or -1
LastIndexOf(s, pat) ==
    LET hits == {i \in 0..Len(s) : OccursAt(s, pat, i)}
    IN  IF hits = {} THEN -1 ELSE Max(hits)

\* String.prototype.slice(start): a negative start counts from the end
Slice(s, start) ==
    LET n == Len(s)
        from == IF start < 0 THEN Max({n + start, 0}) ELSE Min({start, n})
    IN  SubSeq(s, from + 1, n)

\* String.prototype.substring(a, b): arguments clamped to 0..length and swapped
\* when a > b
Substring(s, a, b) ==
    LET n == Len(s)
        ca == Max({0, Min({a, n})})
        cb == Max({0, Min({b, n})})
    IN  SubSeq(s, Min({ca, cb}) + 1, Max({ca, cb}))

WhiteSpace == {" "}

RECURSIVE TrimStart(_)
TrimStart(s) ==
    IF s # <<>> /\ Head(s) \in WhiteSpace THEN TrimStart(Tail(s)) ELSE s

RECURSIVE TrimEnd(_)
TrimEnd(s) ==
    IF s # <<>> /\ s[Len(s)] \in WhiteSpace
    THEN TrimEnd(SubSeq(s, 1, Len(s) - 1))
    ELSE s

\* String.prototype.trim
Trim(s) == TrimEnd(TrimStart(s))

\* Array.prototype.join(sep) on an array of strings
RECURSIVE Join(_, _)
Join(parts, sep) ==
    IF parts = <<>> THEN <<>>
    ELSE IF Len(parts) = 1 THEN parts[1]
    ELSE parts[1] \o sep \o Join(Tail(parts), sep)

Digit(d) ==
    CASE d = 0 -> "0" [] d = 1 -> "1" [] d = 2 -> "2" [] d = 3 -> "3" [] d = 4 -> "4"
      [] d = 5 -> "5" [] d = 6 -> "6" [] d = 7 -> "7" [] d = 8 -> "8" [] d = 9 -> "9"

\* the decimal text of a natural number, as a template literal `${n}` gives it
RECURSIVE NumberToString(_)
NumberToString(n) ==
    IF n < 10 THEN <<Digit(n)>> ELSE NumberToString(n \div 10) \o <<Digit(n % 10)>>

\* the decimal text of n padded with zeros on the left to at least w characters
PadZero(n, w) ==
    LET t == NumberToString(n)
    IN  IF Len(t) >= w THEN t ELSE [i \in 1..(w - Len(t)) |-> "0"] \o t

-----------------------------------------------------------------------------
(* CONFIG (lines 11-67) and the other string constants of the source *)

\* "DriveID"
TARGET_SHARED_DRIVE_ID ==
    <<"D", "r", "i", "v", "e", "I", "D">>

\* "email1@email.com,email2@email.com"
EMAIL_RECIPIENTS ==
    <<"e", "m", "a", "i", "l", "1", "@", "e", "m", "a", "i", "l", ".", "c", "o", "m", ",", "e",
      "m", "a", "i", "l", "2", "@", "e", "m", "a", "i", "l", ".", "c", "o", "m">>

\* "admin@email.com"
ADMIN_EMAIL ==
    <<"a", "d", "m", "i", "n", "@", "e", "m", "a", "i", "l", ".", "c", "o", "m">>

\* "Purchase Order Submission: {Funding Source} - {Vendor} - {Last Name}"
EMAIL_SUBJECT_TEMPLATE ==
    <<"P", "u", "r", "c", "h", "a", "s", "e", " ", "O", "r", "d", "e", "r", " ", "S", "u", "b",
      "m", "i", "s", "s", "i", "o", "n", ":", " ", "{", "F", "u", "n", "d", "i", "n", "g", " ",
      "S", "o", "u", "r", "c", "e", "}", " ", "-", " ", "{", "V", "e", "n", "d", "o", "r", "}",
      " ", "-", " ", "{", "L", "a", "s", "t", " ", "N", "a", "m", "e", "}">>

\* "{Funding Source} - {Vendor} - {Last Name} - {QuestionTitle}"
FILE_NAME_TEMPLATE ==
    <<"{", "F", "u", "n", "d", "i", "n", "g", " ", "S", "o", "u", "r", "c", "e", "}", " ", "-",
      " ", "{", "V", "e", "n", "d", "o", "r", "}", " ", "-", " ", "{", "L", "a", "s", "t", " ",
      "N", "a", "m", "e", "}", " ", "-", " ", "{", "Q", "u", "e", "s", "t", "i", "o", "n", "T",
      "i", "t", "l", "e", "}">>

\* "{Funding Source} - {Vendor} - {Last Name}"
FILE_NAME_PREFIX_TEMPLATE ==
    <<"{", "F", "u", "n", "d", "i", "n", "g", " ", "S", "o", "u", "r", "c", "e", "}", " ", "-",
      " ", "{", "V", "e", "n", "d", "o", "r", "}", " ", "-", " ", "{", "L", "a", "s", "t", " ",
      "N", "a", "m", "e", "}">>

\* "Supporting Docs (SDS, Justification, etc)"
SPECIAL_NAMING_QUESTION_TITLE ==
    <<"S", "u", "p", "p", "o", "r", "t", "i", "n", "g", " ", "D", "o", "c", "s", " ", "(", "S",
      "D", "S", ",", " ", "J", "u", "s", "t", "i", "f", "i", "c", "a", "t", "i", "o", "n", ",",
      " ", "e", "t", "c", ")">>

\* question titles of the form, as CONFIG spells them
\* "First Name"
T_FirstName ==
    <<"F", "i", "r", "s", "t", " ", "N", "a", "m", "e">>

\* "Do you know the funding code or name of the fund?"
T_KnowFundingCode ==
    <<"D", "o", " ", "y", "o", "u", " ", "k", "n", "o", "w", " ", "t", "h", "e", " ", "f", "u",
      "n", "d", "i", "n", "g", " ", "c", "o", "d", "e", " ", "o", "r", " ", "n", "a", "m", "e",
      " ", "o", "f", " ", "t", "h", "e", " ", "f", "u", "n", "d", "?">>

\* "Is this purchase supporting a Capstone Project, Honors Research Project, or Student Independent Research Project?"
T_CapstoneProject ==
    <<"I", "s", " ", "t", "h", "i", "s", " ", "p", "u", "r", "c", "h", "a", "s", "e", " ", "s",
      "u", "p", "p", "o", "r", "t", "i", "n", "g", " ", "a", " ", "C", "a", "p", "s", "t", "o",
      "n", "e", " ", "P", "r", "o", "j", "e", "c", "t", ",", " ", "H", "o", "n", "o", "r", "s",
      " ", "R", "e", "s", "e", "a", "r", "c", "h", " ", "P", "r", "o", "j", "e", "c", "t", ",",
      " ", "o", "r", " ", "S", "t", "u", "d", "e", "n", "t", " ", "I", "n", "d", "e", "p", "e",
      "n", "d", "e", "n", "t", " ", "R", "e", "s", "e", "a", "r", "c", "h", " ", "P", "r", "o",
      "j", "e", "c", "t", "?">>

\* "If you answered anything but no, please give the sponsoring dept, project, and Student name"
T_SponsoringDept ==
    <<"I", "f", " ", "y", "o", "u", " ", "a", "n", "s", "w", "e", "r", "e", "d", " ", "a", "n",
      "y", "t", "h", "i", "n", "g", " ", "b", "u", "t", " ", "n", "o", ",", " ", "p", "l", "e",
      "a", "s", "e", " ", "g", "i", "v", "e", " ", "t", "h", "e", " ", "s", "p", "o", "n", "s",
      "o", "r", "i", "n", "g", " ", "d", "e", "p", "t", ",", " ", "p", "r", "o", "j", "e", "c",
      "t", ",", " ", "a", "n", "d", " ", "S", "t", "u", "d", "e", "n", "t", " ", "n", "a", "m",
      "e">>

\* "Description of the items being ordered and a justification for the order (e.g. resistors and sensors for use in EW309 coursework)"
T_Description ==
    <<"D", "e", "s", "c", "r", "i", "p", "t", "i", "o", "n", " ", "o", "f", " ", "t", "h", "e",
      " ", "i", "t", "e", "m", "s", " ", "b", "e", "i", "n", "g", " ", "o", "r", "d", "e", "r",
      "e", "d", " ", "a", "n", "d", " ", "a", " ", "j", "u", "s", "t", "i", "f", "i", "c", "a",
      "t", "i", "o", "n", " ", "f", "o", "r", " ", "t", "h", "e", " ", "o", "r", "d", "e", "r",
      " ", "(", "e", ".", "g", ".", " ", "r", "e", "s", "i", "s", "t", "o", "r", "s", " ", "a",
      "n", "d", " ", "s", "e", "n", "s", "o", "r", "s", " ", "f", "o", "r", " ", "u", "s", "e",
      " ", "i", "n", " ", "E", "W", "3", "0", "9", " ", "c", "o", "u", "r", "s", "e", "w", "o",
      "r", "k", ")">>

\* "Does this order require an ITPRA/ITPR or RFR (Radio Frequency Review)?"
T_RequiresITPRA ==
    <<"D", "o", "e", "s", " ", "t", "h", "i", "s", " ", "o", "r", "d", "e", "r", " ", "r", "e",
      "q", "u", "i", "r", "e", " ", "a", "n", " ", "I", "T", "P", "R", "A", "/", "I", "T", "P",
      "R", " ", "o", "r", " ", "R", "F", "R", " ", "(", "R", "a", "d", "i", "o", " ", "F", "r",
      "e", "q", "u", "e", "n", "c", "y", " ", "R", "e", "v", "i", "e", "w", ")", "?">>

\* "Does this order contain any hazardous materials (HAZMAT)? Examples include glue, paint, solvents, etc.  (If so, provide SDS sheet)"
T_Hazmat ==
    <<"D", "o", "e", "s", " ", "t", "h", "i", "s", " ", "o", "r", "d", "e", "r", " ", "c", "o",
      "n", "t", "a", "i", "n", " ", "a", "n", "y", " ", "h", "a", "z", "a", "r", "d", "o", "u",
      "s", " ", "m", "a", "t", "e", "r", "i", "a", "l", "s", " ", "(", "H", "A", "Z", "M", "A",
      "T", ")", "?", " ", "E", "x", "a", "m", "p", "l", "e", "s", " ", "i", "n", "c", "l", "u",
      "d", "e", " ", "g", "l", "u", "e", ",", " ", "p", "a", "i", "n", "t", ",", " ", "s", "o",
      "l", "v", "e", "n", "t", "s", ",", " ", "e", "t", "c", ".", " ", " ", "(", "I", "f", " ",
      "s", "o", ",", " ", "p", "r", "o", "v", "i", "d", "e", " ", "S", "D", "S", " ", "s", "h",
      "e", "e", "t", ")">>

\* "Total purchase price"
T_TotalPrice ==
    <<"T", "o", "t", "a", "l", " ", "p", "u", "r", "c", "h", "a", "s", "e", " ", "p", "r", "i",
      "c", "e">>

\* "One or Two keywords word describing the items being ordered (this is used for folder naming and text in email subject lines)"
T_Keywords ==
    <<"O", "n", "e", " ", "o", "r", " ", "T", "w", "o", " ", "k", "e", "y", "w", "o", "r", "d",
      "s", " ", "w", "o", "r", "d", " ", "d", "e", "s", "c", "r", "i", "b", "i", "n", "g", " ",
      "t", "h", "e", " ", "i", "t", "e", "m", "s", " ", "b", "e", "i", "n", "g", " ", "o", "r",
      "d", "e", "r", "e", "d", " ", "(", "t", "h", "i", "s", " ", "i", "s", " ", "u", "s", "e",
      "d", " ", "f", "o", "r", " ", "f", "o", "l", "d", "e", "r", " ", "n", "a", "m", "i", "n",
      "g", " ", "a", "n", "d", " ", "t", "e", "x", "t", " ", "i", "n", " ", "e", "m", "a", "i",
      "l", " ", "s", "u", "b", "j", "e", "c", "t", " ", "l", "i", "n", "e", "s", ")">>

\* "Funding Source"
T_FundingSource ==
    <<"F", "u", "n", "d", "i", "n", "g", " ", "S", "o", "u", "r", "c", "e">>

\* "Vendor"
T_Vendor ==
    <<"V", "e", "n", "d", "o", "r">>

\* "Last Name"
T_LastName ==
    <<"L", "a", "s", "t", " ", "N", "a", "m", "e">>

\* "Upload Quote"
T_UploadQuote ==
    <<"U", "p", "l", "o", "a", "d", " ", "Q", "u", "o", "t", "e">>

EXCLUDE_FROM_FOLDER_NAME ==
    {T_FirstName, T_KnowFundingCode, T_CapstoneProject, T_SponsoringDept, T_Description,
     T_RequiresITPRA, T_Hazmat, T_TotalPrice}

EXCLUDE_FROM_EMAIL_BODY ==
    {T_Keywords, T_KnowFundingCode, T_CapstoneProject, T_SponsoringDept}

-----------------------------------------------------------------------------
(* buildFromTemplate (lines 181-189) *)

\* 'N/A' (line 187)
NA == <<"N", "/", "A">>

\* "QuestionTitle", the key of the additional placeholder (line 235)
QuestionTitleKey ==
    <<"Q", "u", "e", "s", "t", "i", "o", "n", "T", "i", "t", "l", "e">>

\* an object literal with no own properties: the default {} of line 181
EmptyObject == [k \in {} |-> <<>>]

\* String(f) of a built-in function named name
NativeFunctionText(name) ==
    <<"f", "u", "n", "c", "t", "i", "o", "n", " ">> \o name
        \o <<"(", ")", " ", "{", " ", "[", "n", "a", "t", "i", "v", "e", " ",
             "c", "o", "d", "e", "]", " ", "}">>

P_constructor == <<"c", "o", "n", "s", "t", "r", "u", "c", "t", "o", "r">>

P_toString == <<"t", "o", "S", "t", "r", "i", "n", "g">>

P_valueOf == <<"v", "a", "l", "u", "e", "O", "f">>

\* Properties every object literal inherits from Object.prototype, with the text
\* String.prototype.replace makes of them when the callback returns one:
\* allPlaceholders is created by an object literal (line 183), so
\* allPlaceholders[placeholder] (line 187) finds them too.
ObjectPrototype ==
    [k \in {P_constructor, P_toString, P_valueOf} |->
        IF k = P_constructor THEN NativeFunctionText(<<"O", "b", "j", "e", "c", "t">>)
        ELSE NativeFunctionText(k)]

\* {...responseMap, ...additionalPlaceholders} (line 183): later spreads win
SpreadMerge(first, second) ==
    [k \in DOMAIN first \cup DOMAIN second |->
        IF k \in DOMAIN second THEN second[k] ELSE first[k]]

\* allPlaceholders[placeholder] ?? 'N/A' (line 187): own property, else inherited
\* property, else undefined, which ?? turns into 'N/A'
LookupOrNA(allPlaceholders, placeholder) ==
    IF placeholder \in DOMAIN allPlaceholders THEN allPlaceholders[placeholder]
    ELSE IF placeholder \in DOMAIN ObjectPrototype THEN ObjectPrototype[placeholder]
    ELSE NA

\* the index of the first "}" of t at or after position i (1-based), 0 if none
NextClose(t, i) ==
    LET closes == {j \in i..Len(t) : t[j] = "}"}
    IN  IF closes = {} THEN 0 ELSE Min(closes)

\* ReplacePlaceholders with the pattern /\{([^{}]+)\}/g, whose token holds no brace
RECURSIVE ReplacePlaceholdersNoInnerBrace(_, _, _)
ReplacePlaceholdersNoInnerBrace(t, i, allPlaceholders) ==
    IF i > Len(t) THEN <<>>
    ELSE LET braces == {j \in (i + 1)..Len(t) : t[j] \in {"{", "}"}}
             brace == IF braces = {} THEN 0 ELSE Min(braces)
         IN  IF t[i] = "{" /\ brace > i + 1 /\ t[brace] = "}"
             THEN LookupOrNA(allPlaceholders, SubSeq(t, i + 1, brace - 1))
                      \o ReplacePlaceholdersNoInnerBrace(t, brace + 1, allPlaceholders)
             ELSE <<t[i]>> \o ReplacePlaceholdersNoInnerBrace(t, i + 1, allPlaceholders)

\* template.replace(/\{([^}]+)\}/g, callback) (lines 185-188), scanning from the
\* 1-based position i: a match starts at a "{" that is followed by one or more
\* characters other than "}" and then a "}"; matches are found left to right and
\* do not overlap; the callback's value is inserted without being scanned again.
RECURSIVE ReplacePlaceholders(_, _, _)
ReplacePlaceholders(t, i, allPlaceholders) ==
    IF i > Len(t) THEN <<>>
    ELSE LET close == NextClose(t, i + 1)
         IN  IF t[i] = "{" /\ close > i + 1
             THEN LookupOrNA(allPlaceholders, SubSeq(t, i + 1, close - 1))
                      \o ReplacePlaceholders(t, close + 1, allPlaceholders)
             ELSE <<t[i]>> \o ReplacePlaceholders(t, i + 1, allPlaceholders)

\* buildFromTemplate that resolves the tokens of its own result once more
buildFromTemplateAgain(template, respMap, additionalPlaceholders) ==
    LET allPlaceholders == SpreadMerge(respMap, additionalPlaceholders)
    IN  ReplacePlaceholders(ReplacePlaceholders(template, 1, allPlaceholders), 1,
                            allPlaceholders)

buildFromTemplate(template, respMap, additionalPlaceholders) ==
    ReplacePlaceholders(template, 1, SpreadMerge(respMap, additionalPlaceholders))

-----------------------------------------------------------------------------
(* The file naming of processAndRenameFiles (lines 211-243) *)

IllegalChars == {"\\", "/", ":", "\"", "*", "?", "<", ">", "|"}

\* s.replace(/[\\/:"*?<>|]/g, '-') (lines 221 and 236)
Sanitize(s) == [i \in 1..Len(s) |-> IF s[i] \in IllegalChars THEN "-" ELSE s[i]]

Dot == <<".">>

\* ' - ' (line 224)
Separator == <<" ", "-", " ">>

\* originalName.slice(originalName.lastIndexOf('.')) (line 213)
Extension(originalName) == Slice(originalName, LastIndexOf(originalName, Dot))

\* lines 224-227
OriginalBaseName(originalName) ==
    LET separatorIndex == LastIndexOf(originalName, Separator)
    IN  IF separatorIndex # -1
        THEN Substring(originalName, 0, separatorIndex)
        ELSE Substring(originalName, 0, LastIndexOf(originalName, Dot))

\* lines 220-230: the special naming logic
SpecialFileName(originalName, respMap) ==
    LET prefix == buildFromTemplate(FILE_NAME_PREFIX_TEMPLATE, respMap, EmptyObject)
        sanitizedPrefix == Sanitize(prefix)
    IN  sanitizedPrefix \o Separator \o OriginalBaseName(originalName)
            \o Extension(originalName)

\* NumberSuffix numbering from 0: ` (${index})`
NumberSuffixFromZero(index) == <<" ", "(">> \o NumberToString(index) \o <<")">>

\* ` (${index + 1})` (line 240); index is the 0-based position among the fileIds
NumberSuffix(index) == <<" ", "(">> \o NumberToString(index + 1) \o <<")">>

\* lines 235-242: the standard naming logic
StandardFileName(originalName, questionTitle, index, fileCount, respMap) ==
    LET baseFileName ==
            buildFromTemplate(FILE_NAME_TEMPLATE, respMap,
                              [k \in {QuestionTitleKey} |-> questionTitle])
        sanitizedBaseName == Sanitize(baseFileName)
    IN  sanitizedBaseName
            \o (IF fileCount > 1 THEN NumberSuffix(index) ELSE <<>>)
            \o Extension(originalName)

\* lines 213-243: the new name of the file at 0-based position index among the
\* fileCount files uploaded to the question titled questionTitle
NewFileName(originalName, questionTitle, index, fileCount, respMap) ==
    IF questionTitle = SPECIAL_NAMING_QUESTION_TITLE
    THEN SpecialFileName(originalName, respMap)
    ELSE StandardFileName(originalName, questionTitle, index, fileCount, respMap)

-----------------------------------------------------------------------------
(* Item responses, the response map (lines 110-115) and buildFolderName      *)
(* (lines 153-170)                                                           *)

\* itemResponse.getResponse(): a string, an array of strings (a checkbox answer,
\* or the file ids of a file upload), or null
StringResponse(s) == [kind |-> "string", str |-> s, items |-> <<>>]

ArrayResponse(a) == [kind |-> "array", str |-> <<>>, items |-> a]

NullResponse == [kind |-> "null", str |-> <<>>, items |-> <<>>]

\* an item response: getItem().getTitle(), getItem().getType(), getResponse()
ItemResponse(title, type, response) ==
    [title |-> title, type |-> type, response |-> response]

CommaSpace == <<",", " ">>

\* lines 112-113: response ?? '' ; Array.isArray(answer) ? answer.join(", ")
\* : answer.toString()
AnswerText(response) ==
    IF response.kind = "array" THEN Join(response.items, CommaSpace)
    ELSE IF response.kind = "string" THEN response.str
    ELSE <<>>

\* ReduceResponseMap with an entry that is never overwritten: the first item of a
\* title wins
RECURSIVE ReduceResponseMapKeepFirst(_, _)
ReduceResponseMapKeepFirst(itemResponses, n) ==
    IF n = 0 THEN EmptyObject
    ELSE LET map == ReduceResponseMapKeepFirst(itemResponses, n - 1)
             title == itemResponses[n].title
         IN  [k \in DOMAIN map \cup {title} |->
                 IF k \in DOMAIN map THEN map[k]
                 ELSE AnswerText(itemResponses[n].response)]

\* lines 110-115: the reduce over the first n item responses; a later item
\* overwrites the entry of an earlier one with the same title
RECURSIVE ReduceResponseMap(_, _)
ReduceResponseMap(itemResponses, n) ==
    IF n = 0 THEN EmptyObject
    ELSE LET map == ReduceResponseMap(itemResponses, n - 1)
             title == itemResponses[n].title
         IN  [k \in DOMAIN map \cup {title} |->
                 IF k = title THEN AnswerText(itemResponses[n].response) ELSE map[k]]

BuildResponseMap(itemResponses) == ReduceResponseMap(itemResponses, Len(itemResponses))

\* lines 162-163: the conditional binds looser than the method calls, so trim()
\* applies to the scalar branch only
FolderNamePart(response) ==
    IF response.kind = "array" THEN Join(response.items, CommaSpace)
    ELSE IF response.kind = "string" THEN Trim(response.str)
    ELSE Trim(<<>>)

\* lines 156-159: the filter that keeps an item for the folder name
InFolderName(item) ==
    /\ item.type # "FILE_UPLOAD"
    /\ item.title \notin EXCLUDE_FROM_FOLDER_NAME

\* '_PENDING_' (line 169)
PendingMark == <<"_", "P", "E", "N", "D", "I", "N", "G", "_">>

Underscore == <<"_">>

buildFolderName(itemResponses, ts) ==
    LET kept == SelectSeq(itemResponses, InFolderName)
        mapped == [i \in 1..Len(kept) |-> FolderNamePart(kept[i].response)]
        parts == SelectSeq(mapped, LAMBDA part : part # <<>>)
    IN  ts \o PendingMark \o Join(parts, Underscore)

-----------------------------------------------------------------------------
(* escapeHtml (lines 303-311) and the body of sendNotificationEmail          *)
(* (lines 268-285)                                                           *)

\* one pass of text.replace(/c/g, entity)
RECURSIVE ReplaceChar(_, _, _)
ReplaceChar(text, c, entity) ==
    IF text = <<>> THEN <<>>
    ELSE (IF Head(text) = c THEN entity ELSE <<Head(text)>>)
             \o ReplaceChar(Tail(text), c, entity)

\* escapeHtml with the pass for & made last instead of first
escapeHtmlAmpLast(text) ==
    LET lt == ReplaceChar(text, "<", <<"&", "l", "t", ";">>)
        gt == ReplaceChar(lt, ">", <<"&", "g", "t", ";">>)
        quot == ReplaceChar(gt, "\"", <<"&", "q", "u", "o", "t", ";">>)
        apos == ReplaceChar(quot, "'", <<"&", "#", "0", "3", "9", ";">>)
    IN  ReplaceChar(apos, "&", <<"&", "a", "m", "p", ";">>)

\* the five replace passes, in the order of lines 306-310
escapeHtml(text) ==
    LET amp == ReplaceChar(text, "&", <<"&", "a", "m", "p", ";">>)
        lt == ReplaceChar(amp, "<", <<"&", "l", "t", ";">>)
        gt == ReplaceChar(lt, ">", <<"&", "g", "t", ";">>)
        quot == ReplaceChar(gt, "\"", <<"&", "q", "u", "o", "t", ";">>)
    IN  ReplaceChar(quot, "'", <<"&", "#", "0", "3", "9", ";">>)

\* '<em>No response provided</em>' (line 276)
NoResponseProvided ==
    <<"<", "e", "m", ">", "N", "o", " ", "r", "e", "s", "p", "o", "n", "s", "e", " ", "p",
      "r", "o", "v", "i", "d", "e", "d", "<", "/", "e", "m", ">">>

\* lines 276 and 280: the answer as it is put into the body
FormattedAnswer(response) ==
    IF response.kind = "array" THEN escapeHtml(Join(response.items, CommaSpace))
    ELSE IF response.kind = "string" THEN escapeHtml(response.str)
    ELSE escapeHtml(NoResponseProvided)

\* InEmailBody without the test of the exclusion list
InEmailBodyUnlessUpload(item) == item.type # "FILE_UPLOAD"

\* line 274
InEmailBody(item) ==
    /\ item.type # "FILE_UPLOAD"
    /\ item.title \notin EXCLUDE_FROM_EMAIL_BODY

\* line 283: `<strong>${safeTitle}:</strong> ${formattedAnswer}<br/><br/>`
BodyFragment(item) ==
    <<"<", "s", "t", "r", "o", "n", "g", ">">> \o escapeHtml(item.title)
        \o <<":", "<", "/", "s", "t", "r", "o", "n", "g", ">", " ">>
        \o FormattedAnswer(item.response)
        \o <<"<", "b", "r", "/", ">", "<", "b", "r", "/", ">">>

\* lines 268-285: the body after the first n item responses
RECURSIVE EmailBody(_, _)
EmailBody(itemResponses, n) ==
    IF n = 0 THEN <<>>
    ELSE EmailBody(itemResponses, n - 1)
             \o (IF InEmailBody(itemResponses[n]) THEN BodyFragment(itemResponses[n])
                 ELSE <<>>)

-----------------------------------------------------------------------------
(* Utilities.formatDate(new Date(), "America/New_York", "yyyyMMdd-HHmm")     *)
(* (line 105).  A time is the number of minutes since 2025-01-01 00:00 New    *)
(* York time and lies within January 2025.                                   *)

MinutesPerDay == 24 * 60

\* 23:59 on 2025-01-01: the minute the submission arrives in
StartClock == 23 * 60 + 59

\* what new Date() can return when an invocation reads the clock
Times == {StartClock, StartClock + 1}

FormatDate(minutes) ==
    LET day == (minutes \div MinutesPerDay) + 1
        hour == (minutes % MinutesPerDay) \div 60
        minute == minutes % 60
    IN  <<"2", "0", "2", "5", "0", "1">> \o PadZero(day, 2) \o <<"-">>
            \o PadZero(hour, 2) \o PadZero(minute, 2)

-----------------------------------------------------------------------------
(* State *)

\* The invocations of onFormSubmit one submission can start: the platform runs the
\* handler once for every trigger bound to it.
Invocations == {1, 2}

hvars ==
    <<pc, timestamp, responseMap, folderName, emailSubject, newFolder, cursor, routed,
      steps, raisedAt, mail>>

platformVars == <<driveFiles, folders, submission>>

triggerVars == <<triggers, initLog>>

callVars == <<args, ret>>

vars == <<platformVars, triggerVars, hvars, callVars>>

\* no pure-function call is being modelled
NoCall == [fn |-> "none"]

\* the state of an invocation before its first statement
FreshInvocations(started) ==
    /\ pc = [p \in Invocations |-> IF p \in started THEN "timestamp" ELSE "off"]
    /\ timestamp = [p \in Invocations |-> <<>>]
    /\ responseMap = [p \in Invocations |-> EmptyObject]
    /\ folderName = [p \in Invocations |-> <<>>]
    /\ emailSubject = [p \in Invocations |-> <<>>]
    /\ newFolder = [p \in Invocations |-> 0]
    /\ cursor = [p \in Invocations |-> <<1, 1>>]
    /\ routed = [p \in Invocations |-> <<>>]
    /\ steps = [p \in Invocations |-> <<>>]
    /\ raisedAt = [p \in Invocations |-> "none"]
    /\ mail = [p \in Invocations |-> <<>>]

-----------------------------------------------------------------------------
(* onFormSubmit (lines 101-144), one action per statement *)

\* the statement at label l of invocation p is executed and control goes to next
Goto(p, l, next) ==
    /\ pc[p] = l
    /\ pc' = [pc EXCEPT ![p] = next]
    /\ steps' = [steps EXCEPT ![p] = Append(@, l)]

\* line 105
GenerateTimestamp(p) ==
    /\ Goto(p, "timestamp", "itemResponses")
    /\ \E now \in Times : timestamp' = [timestamp EXCEPT ![p] = FormatDate(now)]
    /\ UNCHANGED <<responseMap, folderName, emailSubject, newFolder, cursor, routed,
                   raisedAt, mail, platformVars, triggerVars, callVars>>

\* line 106
GetItemResponses(p) ==
    /\ Goto(p, "itemResponses", "responseMap")
    /\ UNCHANGED <<timestamp, responseMap, folderName, emailSubject, newFolder, cursor,
                   routed, raisedAt, mail, platformVars, triggerVars, callVars>>

\* lines 110-115
ReduceItemResponses(p) ==
    /\ Goto(p, "responseMap", "folderName")
    /\ responseMap' = [responseMap EXCEPT ![p] = BuildResponseMap(submission)]
    /\ UNCHANGED <<timestamp, folderName, emailSubject, newFolder, cursor, routed,
                   raisedAt, mail, platformVars, triggerVars, callVars>>

\* ComposeFolderName with a timestamp of its own, formatted when the name is built
ComposeFolderNameNewTimestamp(p) ==
    /\ Goto(p, "folderName", "emailSubject")
    /\ \E now \in Times :
           folderName' = [folderName EXCEPT
                             ![p] = buildFolderName(submission, FormatDate(now))]
    /\ UNCHANGED <<timestamp, responseMap, emailSubject, newFolder, cursor, routed,
                   raisedAt, mail, platformVars, triggerVars, callVars>>

\* line 118
ComposeFolderName(p) ==
    /\ Goto(p, "folderName", "emailSubject")
    /\ folderName' = [folderName EXCEPT ![p] = buildFolderName(submission, timestamp[p])]
    /\ UNCHANGED <<timestamp, responseMap, emailSubject, newFolder, cursor, routed,
                   raisedAt, mail, platformVars, triggerVars, callVars>>

\* line 119
ComposeEmailSubject(p) ==
    /\ Goto(p, "emailSubject", "targetDrive")
    /\ emailSubject' =
           [emailSubject EXCEPT
               ![p] = buildFromTemplate(EMAIL_SUBJECT_TEMPLATE, responseMap[p], EmptyObject)]
    /\ UNCHANGED <<timestamp, responseMap, folderName, newFolder, cursor, routed,
                   raisedAt, mail, platformVars, triggerVars, callVars>>

\* line 122
GetTargetDrive(p) ==
    /\ Goto(p, "targetDrive", "createFolder")
    /\ UNCHANGED <<timestamp, responseMap, folderName, emailSubject, newFolder, cursor,
                   routed, raisedAt, mail, platformVars, triggerVars, callVars>>

\* CreateFolder that first looks for a folder of the same name in the target
\* drive and takes it instead of creating a second one
CreateFolderUnlessExists(p) ==
    /\ Goto(p, "createFolder", "processFiles")
    /\ LET same == {k \in 1..Len(folders) : folders[k].name = folderName[p]}
       IN  IF same = {}
           THEN /\ folders' = Append(folders, [name |-> folderName[p], createdBy |-> p])
                /\ newFolder' = [newFolder EXCEPT ![p] = Len(folders) + 1]
           ELSE /\ folders' = folders
                /\ newFolder' = [newFolder EXCEPT ![p] = Min(same)]
    /\ UNCHANGED <<timestamp, responseMap, folderName, emailSubject, cursor, routed,
                   raisedAt, mail, driveFiles, submission, triggerVars, callVars>>

\* lines 123-124: the new folder is appended to the target drive's folders
CreateFolder(p) ==
    /\ Goto(p, "createFolder", "processFiles")
    /\ folders' = Append(folders, [name |-> folderName[p], createdBy |-> p])
    /\ newFolder' = [newFolder EXCEPT ![p] = Len(folders) + 1]
    /\ UNCHANGED <<timestamp, responseMap, folderName, emailSubject, cursor, routed,
                   raisedAt, mail, driveFiles, submission, triggerVars, callVars>>

-----------------------------------------------------------------------------
(* processAndRenameFiles (lines 198-258) *)

\* line 201: the file upload responses, in submission order
FileUploads(itemResponses) ==
    SelectSeq(itemResponses, LAMBDA r : r.type = "FILE_UPLOAD")

\* line 207: fileIds && fileIds.length > 0
HasFileIds(item) == item.response.kind = "array" /\ Len(item.response.items) > 0

\* The position <<question, file>> (both 1-based) of the first file at or after
\* <<q, i>> in the order of the two nested forEach loops (lines 203 and 209);
\* <<Len(uploads) + 1, 1>> when no file is left.
RECURSIVE NextFile(_, _, _)
NextFile(uploads, q, i) ==
    IF q > Len(uploads) THEN <<Len(uploads) + 1, 1>>
    ELSE IF HasFileIds(uploads[q]) /\ i <= Len(uploads[q].response.items) THEN <<q, i>>
    ELSE NextFile(uploads, q + 1, 1)

\* line 127: processAndRenameFiles is called
CallProcessAndRenameFiles(p) ==
    /\ Goto(p, "processFiles", "file")
    /\ cursor' = [cursor EXCEPT ![p] = NextFile(FileUploads(submission), 1, 1)]
    /\ UNCHANGED <<timestamp, responseMap, folderName, emailSubject, newFolder, routed,
                   raisedAt, mail, platformVars, triggerVars, callVars>>

\* what the try block of lines 210-250 can do for one file: run to its end, or
\* raise in getFileById/getName (211-212), in setName (246) or in moveTo (247)
FileOutcomes == {"Moved", "LookupFailed", "RenameFailed", "MoveFailed"}

\* the Drive files after the try block ended with outcome for fileId
DriveAfter(files, fileId, newFileName, destination, outcome) ==
    IF outcome = "Moved"
    THEN [files EXCEPT ![fileId] = [name |-> newFileName, parent |-> destination]]
    ELSE IF outcome = "MoveFailed"
    THEN [files EXCEPT ![fileId].name = newFileName]
    ELSE files

\* ProcessFile without the catch of lines 251-254: an exception of the try block
\* reaches the catch block of onFormSubmit
ProcessFileWithoutCatch(p) ==
    /\ pc[p] = "file"
    /\ cursor[p][1] <= Len(FileUploads(submission))
    /\ \E outcome \in FileOutcomes :
        LET uploads == FileUploads(submission)
            q == cursor[p][1]
            i == cursor[p][2]
            fileIds == uploads[q].response.items
            fileId == fileIds[i]
            questionTitle == uploads[q].title
            originalName == driveFiles[fileId].name
            newFileName ==
                NewFileName(originalName, questionTitle, i - 1, Len(fileIds),
                            responseMap[p])
            looked == outcome # "LookupFailed"
        IN  /\ driveFiles' = DriveAfter(driveFiles, fileId, newFileName, newFolder[p],
                                        outcome)
            /\ routed' =
                   [routed EXCEPT ![p] =
                       Append(@, [question |-> q, index |-> i - 1,
                                  fileCount |-> Len(fileIds), title |-> questionTitle,
                                  fileId |-> fileId,
                                  originalName |-> IF looked THEN originalName ELSE <<>>,
                                  newFileName |-> IF looked THEN newFileName ELSE <<>>,
                                  outcome |-> outcome])]
            /\ cursor' = [cursor EXCEPT ![p] = NextFile(uploads, q, i + 1)]
            /\ pc' = [pc EXCEPT ![p] = IF outcome = "Moved" THEN "file" ELSE "catch"]
            /\ raisedAt' = [raisedAt EXCEPT
                               ![p] = IF outcome = "Moved" THEN @ ELSE "fileTry"]
    /\ UNCHANGED <<steps, timestamp, responseMap, folderName, emailSubject, newFolder,
                   mail, folders, submission, triggerVars, callVars>>

\* lines 209-255: one iteration of the inner forEach, for the file at the cursor;
\* the catch of lines 251-254 absorbs every exception of the try block
ProcessFile(p) ==
    /\ pc[p] = "file"
    /\ cursor[p][1] <= Len(FileUploads(submission))
    /\ \E outcome \in FileOutcomes :
        LET uploads == FileUploads(submission)
            q == cursor[p][1]
            i == cursor[p][2]
            fileIds == uploads[q].response.items
            fileId == fileIds[i]
            questionTitle == uploads[q].title
            originalName == driveFiles[fileId].name
            newFileName ==
                NewFileName(originalName, questionTitle, i - 1, Len(fileIds),
                            responseMap[p])
            looked == outcome # "LookupFailed"
        IN  /\ driveFiles' = DriveAfter(driveFiles, fileId, newFileName, newFolder[p],
                                        outcome)
            /\ routed' =
                   [routed EXCEPT ![p] =
                       Append(@, [question |-> q, index |-> i - 1,
                                  fileCount |-> Len(fileIds), title |-> questionTitle,
                                  fileId |-> fileId,
                                  originalName |-> IF looked THEN originalName ELSE <<>>,
                                  newFileName |-> IF looked THEN newFileName ELSE <<>>,
                                  outcome |-> outcome])]
            /\ cursor' = [cursor EXCEPT ![p] = NextFile(uploads, q, i + 1)]
    /\ UNCHANGED <<pc, steps, timestamp, responseMap, folderName, emailSubject, newFolder,
                   raisedAt, mail, folders, submission, triggerVars, callVars>>

\* line 258: both loops are over and processAndRenameFiles returns
ProcessAndRenameFilesReturns(p) ==
    /\ pc[p] = "file"
    /\ cursor[p][1] > Len(FileUploads(submission))
    /\ pc' = [pc EXCEPT ![p] = "notify"]
    /\ UNCHANGED <<steps, timestamp, responseMap, folderName, emailSubject, newFolder,
                   cursor, routed, raisedAt, mail, platformVars, triggerVars, callVars>>

-----------------------------------------------------------------------------
(* sendNotificationEmail (lines 266-294) and the catch block (lines 132-143) *)

\* 'CRITICAL: Google Script Failure in Purchase Order Form' (line 140)
AlertSubject ==
    <<"C", "R", "I", "T", "I", "C", "A", "L", ":", " ", "G", "o", "o", "g", "l", "e", " ",
      "S", "c", "r", "i", "p", "t", " ", "F", "a", "i", "l", "u", "r", "e", " ", "i", "n",
      " ", "P", "u", "r", "c", "h", "a", "s", "e", " ", "O", "r", "d", "e", "r", " ", "F",
      "o", "r", "m">>

\* SendNotificationEmail with the alert of lines 138-142 sent after it as well, as
\* a finally block in place of the catch block would
SendNotificationEmailThenAlert(p) ==
    /\ Goto(p, "notify", "done")
    /\ mail' = [mail EXCEPT ![p] =
                   Append(@, [to |-> EMAIL_RECIPIENTS, subject |-> emailSubject[p],
                              body |-> EmailBody(submission, Len(submission)),
                              error |-> "none"])
                       \o <<[to |-> ADMIN_EMAIL, subject |-> AlertSubject, body |-> <<>>,
                             error |-> "none"]>>]
    /\ UNCHANGED <<timestamp, responseMap, folderName, emailSubject, newFolder, cursor,
                   routed, raisedAt, platformVars, triggerVars, callVars>>

\* line 130: the body is composed and MailApp.sendEmail returns (lines 288-292)
SendNotificationEmail(p) ==
    /\ Goto(p, "notify", "done")
    /\ mail' = [mail EXCEPT ![p] =
                   Append(@, [to |-> EMAIL_RECIPIENTS, subject |-> emailSubject[p],
                              body |-> EmailBody(submission, Len(submission)),
                              error |-> "none"])]
    /\ UNCHANGED <<timestamp, responseMap, folderName, emailSubject, newFolder, cursor,
                   routed, raisedAt, platformVars, triggerVars, callVars>>

\* The statements of the try block that can raise past the per-file catch: every
\* top-level statement of lines 105-130 and, inside processAndRenameFiles, the
\* statements of lines 204-207, which run at the start of a question outside the
\* per-file try.
CanRaise(p) ==
    \/ pc[p] \in {"timestamp", "itemResponses", "responseMap", "folderName", "emailSubject",
                  "targetDrive", "createFolder", "processFiles", "notify"}
    \/ pc[p] = "file" /\ cursor[p][2] = 1

\* the statement at pc raises: control jumps to the catch block (line 132) and the
\* statement has no effect
Raise(p) ==
    /\ CanRaise(p)
    /\ raisedAt' = [raisedAt EXCEPT ![p] = pc[p]]
    /\ pc' = [pc EXCEPT ![p] = "catch"]
    /\ steps' = [steps EXCEPT ![p] = IF pc[p] = "file" THEN @ ELSE Append(@, pc[p])]
    /\ UNCHANGED <<timestamp, responseMap, folderName, emailSubject, newFolder, cursor,
                   routed, mail, platformVars, triggerVars, callVars>>

\* SendAdminAlert followed by the submission notification, as a call of
\* sendNotificationEmail placed after the try statement would
SendAdminAlertThenNotification(p) ==
    /\ Goto(p, "catch", "done")
    /\ mail' = [mail EXCEPT ![p] =
                   Append(@, [to |-> ADMIN_EMAIL, subject |-> AlertSubject, body |-> <<>>,
                              error |-> raisedAt[p]])
                       \o <<[to |-> EMAIL_RECIPIENTS, subject |-> emailSubject[p],
                             body |-> EmailBody(submission, Len(submission)),
                             error |-> "none"]>>]
    /\ UNCHANGED <<timestamp, responseMap, folderName, emailSubject, newFolder, cursor,
                   routed, raisedAt, platformVars, triggerVars, callVars>>

\* lines 134-142: the alert is sent and onFormSubmit returns
SendAdminAlert(p) ==
    /\ Goto(p, "catch", "done")
    /\ mail' = [mail EXCEPT ![p] =
                   Append(@, [to |-> ADMIN_EMAIL, subject |-> AlertSubject, body |-> <<>>,
                              error |-> raisedAt[p]])]
    /\ UNCHANGED <<timestamp, responseMap, folderName, emailSubject, newFolder, cursor,
                   routed, raisedAt, platformVars, triggerVars, callVars>>

\* line 138: MailApp.sendEmail itself raises inside the catch block; nothing
\* encloses it, so the exception leaves onFormSubmit and no alert is sent
AdminAlertRaises(p) ==
    /\ Goto(p, "catch", "propagated")
    /\ UNCHANGED <<timestamp, responseMap, folderName, emailSubject, newFolder, cursor,
                   routed, raisedAt, mail, platformVars, triggerVars, callVars>>

-----------------------------------------------------------------------------
(* initialize (lines 75-93) *)

\* a trigger of the script project: its handler function and who created it
\* (origin "project": it existed before; origin "initialize": created by the
\* n-th initialize() call)
Trigger(handler, origin, n) == [handler |-> handler, origin |-> origin, n |-> n]

IsHandlerTrigger(t) == t.handler = "onFormSubmit"

\* lines 79-84: every trigger whose handler is 'onFormSubmit' is deleted
DeleteHandlerTriggers(ts) == SelectSeq(ts, LAMBDA t : ~IsHandlerTrigger(t))

\* the first k triggers whose handler is 'onFormSubmit' are deleted
RECURSIVE DeleteFirst(_, _)
DeleteFirst(ts, k) ==
    IF ts = <<>> \/ k = 0 THEN ts
    ELSE IF IsHandlerTrigger(Head(ts)) THEN DeleteFirst(Tail(ts), k - 1)
    ELSE <<Head(ts)>> \o DeleteFirst(Tail(ts), k)

\* TriggersAfterInitialize without the clean-up loop of lines 79-84
TriggersAfterInitializeNoCleanup(ts, n) ==
    Append(ts, Trigger("onFormSubmit", "initialize", n))

\* lines 75-93: the triggers after the call numbered n has returned
TriggersAfterInitialize(ts, n) ==
    Append(DeleteHandlerTriggers(ts), Trigger("onFormSubmit", "initialize", n))

\* initialize() runs to its end
Initialize ==
    /\ Len(initLog) < MaxInits
    /\ triggers' = TriggersAfterInitialize(triggers, Len(initLog) + 1)
    /\ initLog' = Append(initLog, "returned")
    /\ UNCHANGED <<platformVars, hvars, callVars>>

\* initialize() raises part-way: in getActiveForm or getProjectTriggers (nothing
\* deleted), in the k-th deleteTrigger (k - 1 handler triggers deleted), or in
\* create (all of them deleted, none created)
InitializeRaises ==
    /\ Len(initLog) < MaxInits
    /\ \E k \in 0..Len(triggers) :
        /\ k <= Len(SelectSeq(triggers, IsHandlerTrigger))
        /\ triggers' = DeleteFirst(triggers, k)
    /\ initLog' = Append(initLog, "raised")
    /\ UNCHANGED <<platformVars, hvars, callVars>>

-----------------------------------------------------------------------------
(* Submissions, files and initial states *)

\* "Gift"
A_Gift == <<"G", "i", "f", "t">>

\* "Acme"
A_Acme == <<"A", "c", "m", "e">>

\* "Doe"
A_Doe == <<"D", "o", "e">>

\* "Jo"
A_Jo == <<"J", "o">>

\* "A/B"
A_Slash == <<"A", "/", "B">>

\* " x "
A_Padded == <<" ", "x", " ">>

\* " "
A_Blank == <<" ">>

\* "Report - Jane Doe.pdf"
N_ReportJane == <<"R", "e", "p", "o", "r", "t", " ", "-", " ", "J", "a", "n", "e", " ", "D", "o", "e", ".", "p", "d", "f">>

\* "README"
N_Readme == <<"R", "E", "A", "D", "M", "E">>

\* The text answers of a submission: a plain answer, one holding an illegal
\* character, one excluded from the folder name, a checkbox list with a padded
\* entry and an unanswered question; the Last Name question is missing.
AnswerSheets ==
    {<<ItemResponse(T_FundingSource, "TEXT", StringResponse(A_Gift)),
       ItemResponse(T_Vendor, "TEXT", StringResponse(A_Slash)),
       ItemResponse(T_FirstName, "TEXT", StringResponse(A_Jo)),
       ItemResponse(T_Keywords, "CHECKBOX", ArrayResponse(<<A_Padded, A_Acme>>)),
       ItemResponse(T_TotalPrice, "TEXT", NullResponse)>>}

\* the id of the k-th uploaded file
FileId(k) == <<"f">> \o NumberToString(k)

\* the answer to a file upload question: null when n < 0, else the ids of n files
\* starting at the file numbered first
FileResponse(first, n) ==
    IF n < 0 THEN NullResponse
    ELSE ArrayResponse([i \in 1..n |-> FileId(first + i - 1)])

NonNeg(n) == IF n < 0 THEN 0 ELSE n

\* two file upload questions, the standard "Upload Quote" with a files and the
\* special question with b files, in either order
FileQuestions(a, b, specialFirst) ==
    IF specialFirst
    THEN <<ItemResponse(SPECIAL_NAMING_QUESTION_TITLE, "FILE_UPLOAD", FileResponse(1, b)),
           ItemResponse(T_UploadQuote, "FILE_UPLOAD", FileResponse(NonNeg(b) + 1, a))>>
    ELSE <<ItemResponse(T_UploadQuote, "FILE_UPLOAD", FileResponse(1, a)),
           ItemResponse(SPECIAL_NAMING_QUESTION_TITLE, "FILE_UPLOAD",
                        FileResponse(NonNeg(a) + 1, b))>>

Submissions ==
    {sheet \o FileQuestions(a, b, specialFirst) :
        sheet \in AnswerSheets,
        <<a, b>> \in {c \in (-1..MaxFiles) \X (-1..MaxFiles) :
                         NonNeg(c[1]) + NonNeg(c[2]) <= MaxFiles},
        specialFirst \in BOOLEAN}

\* the ids of the files a submission carries
FileIdsOf(itemResponses) ==
    UNION {{r.response.items[i] : i \in 1..Len(r.response.items)} :
              r \in {itemResponses[j] : j \in
                        {n \in 1..Len(itemResponses) :
                            itemResponses[n].type = "FILE_UPLOAD"}}}

\* the names the uploaded files carry in Drive before the handler runs
OriginalNames == {N_ReportJane, N_Readme}

\* the uploaded files in Drive before the handler runs, outside every folder: the
\* files numbered 1, 3, ... carry the name odd and the others the name even, so
\* that neighbours with the same name and with different names both occur
UploadedFiles(ids, odd, even) ==
    [f \in ids |->
        [name |-> IF \E k \in 1..MaxFiles : f = FileId(k) /\ k % 2 = 1 THEN odd ELSE even,
         parent |-> 0]]

\* the project after initialize(): one trigger bound to the handler
InstalledTriggers == <<Trigger("onFormSubmit", "initialize", 1)>>

\* one submission is delivered to the handler once, the trigger being installed
Init ==
    /\ submission \in Submissions
    /\ driveFiles \in {UploadedFiles(FileIdsOf(submission), odd, even) :
                          odd \in OriginalNames, even \in OriginalNames}
    /\ folders = <<>>
    /\ triggers = InstalledTriggers
    /\ initLog = <<"returned">>
    /\ FreshInvocations({1})
    /\ args = NoCall
    /\ ret = NoCall

Next ==
    \E p \in Invocations :
        \/ GenerateTimestamp(p)
        \/ GetItemResponses(p)
        \/ ReduceItemResponses(p)
        \/ ComposeFolderName(p)
        \/ ComposeEmailSubject(p)
        \/ GetTargetDrive(p)
        \/ CreateFolder(p)
        \/ CallProcessAndRenameFiles(p)
        \/ ProcessFile(p)
        \/ ProcessAndRenameFilesReturns(p)
        \/ SendNotificationEmail(p)
        \/ Raise(p)
        \/ SendAdminAlert(p)
        \/ AdminAlertRaises(p)

Spec == Init /\ [][Next]_vars

-----------------------------------------------------------------------------
(* Two invocations of onFormSubmit for one submission, as a project with two *)
(* triggers bound to the handler produces them                               *)

\* the number of files of a submission handled twice
MaxConcurrentFiles == 1

\* submissions with at most MaxConcurrentFiles files, on the standard question
ConcurrentSubmissions ==
    {sheet \o FileQuestions(a, -1, FALSE) :
        sheet \in AnswerSheets, a \in 0..MaxConcurrentFiles}

\* two triggers bound to the handler: each fires for the submission
DuplicateTriggers ==
    <<Trigger("onFormSubmit", "project", 1), Trigger("onFormSubmit", "project", 2)>>

InitConcurrent ==
    /\ submission \in ConcurrentSubmissions
    /\ driveFiles = UploadedFiles(FileIdsOf(submission), N_ReportJane, N_ReportJane)
    /\ folders = <<>>
    /\ triggers = DuplicateTriggers
    /\ initLog = <<>>
    /\ FreshInvocations(Invocations)
    /\ args = NoCall
    /\ ret = NoCall

SpecConcurrent == InitConcurrent /\ [][Next]_vars

-----------------------------------------------------------------------------
(* initialize() alone: any project triggers, then calls of initialize()      *)

\* no submission is being handled
NoSubmission ==
    /\ submission = <<>>
    /\ driveFiles = EmptyObject
    /\ folders = <<>>
    /\ FreshInvocations({})

\* the handler functions triggers of the project can be bound to
Handlers == {"onFormSubmit", "onOpen", "sortFolders"}

\* any triggers the project may hold before initialize() is first run
ProjectTriggers ==
    {[i \in 1..Len(hs) |-> Trigger(hs[i], "project", i)] :
        hs \in BoundedSeq(Handlers, MaxTriggers)}

InitTrigger ==
    /\ triggers \in ProjectTriggers
    /\ initLog = <<>>
    /\ NoSubmission
    /\ args = NoCall
    /\ ret = NoCall

NextTrigger == Initialize \/ InitializeRaises

SpecTrigger == InitTrigger /\ [][NextTrigger]_vars

-----------------------------------------------------------------------------
(* One call of a pure function on enumerated arguments *)

NoTriggers == triggers = <<>> /\ initLog = <<>>

\* the function fn returns value
Return(fn, value) ==
    /\ args.fn = fn
    /\ ret = NoCall
    /\ ret' = [fn |-> fn, value |-> value]
    /\ UNCHANGED <<args, platformVars, triggerVars, hvars>>

(* buildFromTemplate on templates made of literal text and {key} tokens *)

LiteralSegment(text) == [token |-> FALSE, text |-> text]

TokenSegment(key) == [token |-> TRUE, text |-> key]

\* the template a sequence of segments spells
RECURSIVE Render(_)
Render(segs) ==
    IF segs = <<>> THEN <<>>
    ELSE (IF Head(segs).token THEN <<"{">> \o Head(segs).text \o <<"}">>
          ELSE Head(segs).text) \o Render(Tail(segs))

K_A == <<"A">>

K_B == <<"B">>

K_LowerA == <<"a">>

K_ASpace == <<"A", " ">>

V_x == <<"x">>

V_o == <<"o">>

V_TokenB == <<"{", "B", "}">>

\* keys of tokens: two that the maps may hold, a case variant and a whitespace
\* variant of one of them, and the name of an inherited property
TokenKeys == {K_A, K_B, K_LowerA, K_ASpace, P_constructor}

\* text between tokens
LiteralTexts == {Separator, <<"}">>}

Segments ==
    {TokenSegment(k) : k \in TokenKeys} \cup {LiteralSegment(t) : t \in LiteralTexts}

\* all functions from a subset of keys to values
Maps(keys, values) == UNION {[d -> values] : d \in SUBSET keys}

BaseMaps == Maps({K_A, K_B}, {V_x, <<>>, V_TokenB})

OverrideMaps == Maps({K_A}, {V_o, <<>>})

InitTemplate ==
    /\ args \in {[fn |-> "buildFromTemplate", segs |-> segs, template |-> Render(segs),
                  responseMap |-> base, additionalPlaceholders |-> over] :
                    segs \in BoundedSeq(Segments, MaxSegs),
                    base \in BaseMaps, over \in OverrideMaps}
    /\ ret = NoCall
    /\ NoSubmission
    /\ NoTriggers

CallBuildFromTemplate ==
    Return("buildFromTemplate",
           buildFromTemplate(args.template, args.responseMap, args.additionalPlaceholders))

NextTemplate == CallBuildFromTemplate

SpecTemplate == InitTemplate /\ [][NextTemplate]_vars

(* the naming of one uploaded file, on every original name up to MaxNameLen *)

\* the characters of enumerated file names: a letter, the extension dot, the
\* two characters of the ' - ' separator and an illegal character
NameChars == {"a", ".", " ", "-", ":"}

\* the answers of the naming calls
NamingResponseMap ==
    [k \in {T_FundingSource, T_Vendor} |-> IF k = T_Vendor THEN A_Slash ELSE A_Gift]

\* <<index, fileIds.length>>: a single file, and the two files of a pair
NamingPositions == {<<0, 1>>, <<0, 2>>, <<1, 2>>}

InitNaming ==
    /\ args \in {[fn |-> "newFileName", originalName |-> name, questionTitle |-> title,
                  index |-> pos[1], fileCount |-> pos[2],
                  responseMap |-> NamingResponseMap] :
                    name \in BoundedSeq(NameChars, MaxNameLen),
                    title \in {SPECIAL_NAMING_QUESTION_TITLE, T_UploadQuote},
                    pos \in NamingPositions}
    /\ ret = NoCall
    /\ NoSubmission
    /\ NoTriggers

CallNewFileName ==
    Return("newFileName",
           NewFileName(args.originalName, args.questionTitle, args.index, args.fileCount,
                       args.responseMap))

NextNaming == CallNewFileName

SpecNaming == InitNaming /\ [][NextNaming]_vars

(* buildFolderName on every short sequence of item responses *)

\* the answers an item of the folder name can carry
FolderAnswers ==
    {StringResponse(A_Acme), StringResponse(A_Padded), StringResponse(A_Blank),
     StringResponse(<<>>), ArrayResponse(<<>>), ArrayResponse(<<A_Padded>>),
     ArrayResponse(<<A_Gift, A_Doe>>), NullResponse}

\* item responses: a question kept in the folder name with each answer, an
\* excluded question, and a file upload
FolderItems ==
    {ItemResponse(T_Vendor, IF r.kind = "array" THEN "CHECKBOX" ELSE "TEXT", r) :
        r \in FolderAnswers}
        \cup {ItemResponse(T_FirstName, "TEXT", StringResponse(A_Jo)),
              ItemResponse(T_UploadQuote, "FILE_UPLOAD", ArrayResponse(<<FileId(1)>>))}

InitFolder ==
    /\ args \in {[fn |-> "buildFolderName", itemResponses |-> items,
                  timestamp |-> FormatDate(now)] :
                    items \in BoundedSeq(FolderItems, MaxItems), now \in Times}
    /\ ret = NoCall
    /\ NoSubmission
    /\ NoTriggers

CallBuildFolderName ==
    Return("buildFolderName", buildFolderName(args.itemResponses, args.timestamp))

NextFolder == CallBuildFolderName

SpecFolder == InitFolder /\ [][NextFolder]_vars

(* escapeHtml on every short text *)

\* the characters of enumerated texts: the five escaped characters, a letter and
\* the character that ends an entity
TextChars == {"&", "<", ">", "\"", "'", "a", ";"}

\* '<b>"hi"</b>'
X_BoldHi == <<"<", "b", ">", "\"", "h", "i", "\"", "<", "/", "b", ">">>

InitEscape ==
    /\ args \in {[fn |-> "escapeHtml", text |-> text] :
                    text \in BoundedSeq(TextChars, MaxTextLen) \cup {X_BoldHi}}
    /\ ret = NoCall
    /\ NoSubmission
    /\ NoTriggers

CallEscapeHtml == Return("escapeHtml", escapeHtml(args.text))

NextEscape == CallEscapeHtml

SpecEscape == InitEscape /\ [][NextEscape]_vars

(* the body composed by sendNotificationEmail on every short sequence of     *)
(* item responses                                                            *)

\* 'Q&A', a question title that holds an escaped character
T_QandA == <<"Q", "&", "A">>

A_Tag == <<"<", "i", ">">>

\* the answers an item of the body can carry
BodyAnswers ==
    {StringResponse(A_Acme), StringResponse(A_Tag), StringResponse(<<>>),
     ArrayResponse(<<A_Gift, A_Tag>>), NullResponse}

\* item responses: a question shown in the body with each answer, a question
\* whose title needs escaping, an excluded question, and a file upload
BodyItems ==
    {ItemResponse(T_Vendor, IF r.kind = "array" THEN "CHECKBOX" ELSE "TEXT", r) :
        r \in BodyAnswers}
        \cup {ItemResponse(T_QandA, "TEXT", StringResponse(A_Jo)),
              ItemResponse(T_KnowFundingCode, "TEXT", StringResponse(A_Doe)),
              ItemResponse(T_UploadQuote, "FILE_UPLOAD", ArrayResponse(<<FileId(1)>>))}

InitBody ==
    /\ args \in {[fn |-> "emailBody", itemResponses |-> items] :
                    items \in BoundedSeq(BodyItems, MaxItems)}
    /\ ret = NoCall
    /\ NoSubmission
    /\ NoTriggers

CallEmailBody ==
    Return("emailBody", EmailBody(args.itemResponses, Len(args.itemResponses)))

NextBody == CallEmailBody

SpecBody == InitBody /\ [][NextBody]_vars

(* the response map of onFormSubmit on every short sequence of item          *)
(* responses                                                                 *)

\* the answers an item of the map can carry
MapAnswers ==
    {StringResponse(A_Acme), StringResponse(<<>>), ArrayResponse(<<A_Gift, A_Doe>>),
     ArrayResponse(<<>>), NullResponse}

\* item responses: two questions with each answer, a file upload, and a file
\* upload that shares its title with a question
MapItems ==
    {ItemResponse(t, IF r.kind = "array" THEN "CHECKBOX" ELSE "TEXT", r) :
        t \in {T_Vendor, T_FirstName}, r \in MapAnswers}
        \cup {ItemResponse(T_UploadQuote, "FILE_UPLOAD", ArrayResponse(<<FileId(1)>>)),
              ItemResponse(T_Vendor, "FILE_UPLOAD", NullResponse)}

InitMap ==
    /\ args \in {[fn |-> "responseMap", itemResponses |-> items] :
                    items \in BoundedSeq(MapItems, MaxItems)}
    /\ ret = NoCall
    /\ NoSubmission
    /\ NoTriggers

CallBuildResponseMap == Return("responseMap", BuildResponseMap(args.itemResponses))

NextMap == CallBuildResponseMap

SpecMap == InitMap /\ [][NextMap]_vars

(* buildFromTemplate on every short template written character by           *)
(* character, with braces that need not match                                *)

TemplateChars == {"{", "}", "A", "B", " "}

\* the response maps of these calls: an empty one, and one that answers A and B
RawMaps == {EmptyObject, [k \in {K_A, K_B} |-> IF k = K_A THEN V_x ELSE V_o]}

InitRaw ==
    /\ args \in {[fn |-> "buildFromTemplate", segs |-> <<>>, template |-> template,
                  responseMap |-> base, additionalPlaceholders |-> EmptyObject] :
                    template \in BoundedSeq(TemplateChars, MaxTemplateLen),
                    base \in RawMaps}
    /\ ret = NoCall
    /\ NoSubmission
    /\ NoTriggers

SpecRaw == InitRaw /\ [][NextTemplate]_vars

-----------------------------------------------------------------------------
(* Properties of onFormSubmit *)

\* the number of elements of seq that satisfy Test
Count(seq, Test(_)) == Cardinality({i \in 1..Len(seq) : Test(seq[i])})

\* the alerts invocation p has sent to the administrator
AlertsSent(p) == Count(mail[p], LAMBDA m : m.to = ADMIN_EMAIL)

\* the submission notifications invocation p has sent
NotificationsSent(p) == Count(mail[p], LAMBDA m : m.to = EMAIL_RECIPIENTS)

\* the times invocation p has entered the catch block and called for the alert
AlertAttempts(p) == Count(steps[p], LAMBDA l : l = "catch")

\* onFormSubmit is over: it returned, or its exception left it
Ended(p) == pc[p] \in {"done", "propagated"}

\* the top-level statements of the try block, in program order
Statements ==
    <<"timestamp", "itemResponses", "responseMap", "folderName", "emailSubject",
      "targetDrive", "createFolder", "processFiles", "notify">>

\* the statements that run before any file is looked up
BeforeFiles ==
    {"timestamp", "itemResponses", "responseMap", "folderName", "emailSubject",
     "targetDrive", "createFolder", "processFiles"}

\* where an exception that is not absorbed by the per-file catch can come from
OutsidePerFileTry == BeforeFiles \cup {"file", "notify"}

\* the positions <<question, file>> of the uploaded files, in submission order and
\* then upload order
RECURSIVE FileOrderFrom(_, _)
FileOrderFrom(uploads, q) ==
    IF q > Len(uploads) THEN <<>>
    ELSE [i \in 1..Len(uploads[q].response.items) |-> <<q, i>>]
             \o FileOrderFrom(uploads, q + 1)

FileOrder == FileOrderFrom(FileUploads(submission), 1)

\* the k-th per-file outcome of p is that of the k-th uploaded file
RoutedInOrder(p) ==
    /\ Len(routed[p]) <= Len(FileOrder)
    /\ \A k \in 1..Len(routed[p]) :
        LET q == FileOrder[k][1]
            i == FileOrder[k][2]
            upload == FileUploads(submission)[q]
        IN  /\ routed[p][k].question = q
            /\ routed[p][k].index + 1 = i
            /\ routed[p][k].fileId = upload.response.items[i]
            /\ routed[p][k].title = upload.title

\* the file of outcome e is in the folder p created, under its new name
InDestination(p, e) ==
    /\ newFolder[p] \in 1..Len(folders)
    /\ driveFiles[e.fileId] = [name |-> e.newFileName, parent |-> newFolder[p]]

\* C1: when an exception is raised before the per-file boundary is reached, no
\* file is looked up, renamed or moved, the submission notification is never
\* sent, and the alert is called for exactly once: once the run is over the catch
\* block has run once, and the run that returned has sent exactly one alert.
C1_FatalBeforeFiles ==
    \A p \in Invocations :
        raisedAt[p] \in BeforeFiles =>
            /\ routed[p] = <<>>
            /\ \A f \in DOMAIN driveFiles : driveFiles[f].parent = 0
            /\ "notify" \notin {steps[p][k] : k \in 1..Len(steps[p])}
            /\ NotificationsSent(p) = 0
            /\ AlertAttempts(p) <= 1
            /\ AlertsSent(p) <= AlertAttempts(p)
            /\ Ended(p) => AlertAttempts(p) = 1
            /\ pc[p] = "done" => AlertsSent(p) = 1

\* C1 witness: folder creation raised for a submission that carries files, and
\* the run ended with its one alert
C1_Witness ==
    \E p \in Invocations :
        /\ raisedAt[p] = "createFolder"
        /\ pc[p] = "done"
        /\ AlertsSent(p) = 1
        /\ Len(FileOrder) = MaxFiles

\* C2: exceptions of the per-file try block (lookup, rename, move) stay inside
\* it.  As long as nothing outside the per-file try raises, every file is
\* attempted in order whatever happened to the files before it, each file whose
\* own processing did not raise is renamed and in the destination folder, no
\* alert is sent, and the run ends by sending the submission notification.
C2_PerFileIsolation ==
    \A p \in Invocations :
        raisedAt[p] \notin OutsidePerFileTry =>
            /\ raisedAt[p] = "none"
            /\ pc[p] \notin {"catch", "propagated"}
            /\ AlertAttempts(p) = 0
            /\ AlertsSent(p) = 0
            /\ RoutedInOrder(p)
            /\ \A k \in 1..Len(routed[p]) :
                   routed[p][k].outcome = "Moved" => InDestination(p, routed[p][k])
            /\ pc[p] \in {"notify", "done"} => Len(routed[p]) = Len(FileOrder)
            /\ pc[p] = "done" => NotificationsSent(p) = 1

\* C2 witness: of three files of one question the second failed during the move,
\* the first and the third are moved, and the notification is sent
C2_Witness ==
    \E p \in Invocations :
        /\ pc[p] = "done"
        /\ Len(routed[p]) = 3
        /\ \A k \in 1..3 : routed[p][k].question = routed[p][1].question
        /\ routed[p][2].outcome = "MoveFailed"
        /\ routed[p][1].outcome = "Moved" /\ InDestination(p, routed[p][1])
        /\ routed[p][3].outcome = "Moved" /\ InDestination(p, routed[p][3])
        /\ NotificationsSent(p) = 1
        /\ AlertsSent(p) = 0

\* the statements from the first one up to and including label l
RECURSIVE Through(_, _)
Through(stmts, l) ==
    IF stmts = <<>> THEN <<>>
    ELSE IF Head(stmts) = l THEN <<l>>
    ELSE <<Head(stmts)>> \o Through(Tail(stmts), l)

\* the statements executed by a run whose exception was raised at label l (the
\* loop of processAndRenameFiles, label "file", is inside statement processFiles)
ExecutedUntilRaise(l) ==
    Through(Statements, IF l = "file" THEN "processFiles" ELSE l)

\* C3: a fatal fault is reported once.  When an exception escapes the per-file
\* boundary, no statement after the raising one is executed (no further file is
\* processed, no notification is sent), the catch block runs once, and the run
\* that returned has sent exactly one alert, to ADMIN_EMAIL; when no exception
\* escapes, no alert is sent.
C3_FatalReportedOnce ==
    \A p \in Invocations :
        /\ raisedAt[p] = "none" =>
               /\ AlertAttempts(p) = 0
               /\ AlertsSent(p) = 0
               /\ pc[p] \notin {"catch", "propagated"}
        /\ raisedAt[p] # "none" =>
               /\ raisedAt[p] \in OutsidePerFileTry
               /\ pc[p] \in {"catch", "done", "propagated"}
               /\ steps[p] \in {ExecutedUntilRaise(raisedAt[p]),
                                Append(ExecutedUntilRaise(raisedAt[p]), "catch")}
               /\ RoutedInOrder(p)
               /\ NotificationsSent(p) = 0
               /\ pc[p] = "catch" <=> AlertAttempts(p) = 0
               /\ AlertsSent(p) = (IF pc[p] = "done" THEN 1 ELSE 0)
               /\ pc[p] = "done" =>
                      mail[p] = <<[to |-> ADMIN_EMAIL, subject |-> AlertSubject,
                                   body |-> <<>>, error |-> raisedAt[p]]>>

\* C3 witness: the notification send raised after the files were moved, and the
\* run ended with its one alert
C3_Witness ==
    \E p \in Invocations :
        /\ raisedAt[p] = "notify"
        /\ pc[p] = "done"
        /\ AlertsSent(p) = 1
        /\ Len(routed[p]) = MaxFiles

\* the handler triggers among ts
HandlerTriggers(ts) == SelectSeq(ts, IsHandlerTrigger)

\* the triggers of ts bound to other functions
OtherTriggers(ts) == SelectSeq(ts, LAMBDA t : ~IsHandlerTrigger(t))

\* C4: whatever triggers the project holds, when a call of initialize() returns
\* there is exactly one trigger bound to onFormSubmit, it is the one this call
\* created (every earlier one is deleted), and the triggers bound to other
\* functions are as they were.
C4_InitializeIdempotent ==
    [][(Len(initLog') = Len(initLog) + 1 /\ initLog'[Len(initLog')] = "returned") =>
          /\ HandlerTriggers(triggers')
                 = <<Trigger("onFormSubmit", "initialize", Len(initLog'))>>
          /\ OtherTriggers(triggers') = OtherTriggers(triggers)]_vars

\* C4 witness: initialize() has returned twice in a project that also holds
\* triggers of other functions; one handler trigger is left, of the second call
C4_Witness ==
    /\ initLog = <<"returned", "returned">>
    /\ Len(OtherTriggers(triggers)) = 2
    /\ HandlerTriggers(triggers) = <<Trigger("onFormSubmit", "initialize", 2)>>

\* ' (i)' for the upload position i
PositionSuffix(i) == <<" ", "(", Digit(i), ")">>

\* the part of name that follows its first Len(front) characters
After(name, front) == SubSeq(name, Len(front) + 1, Len(name))

\* the name of a standard file before any suffix: the resolved, sanitized template
StandardBase(p, title) ==
    Sanitize(buildFromTemplate(FILE_NAME_TEMPLATE, responseMap[p],
                               [k \in {QuestionTitleKey} |-> title]))

\* C6: files are named in submission order, then upload order; on a standard
\* question with N > 1 files the file at upload position i is named
\* base + ' (i)' + extension, and with N = 1 it is named base + extension.
C6_DisambiguationNumbering ==
    \A p \in Invocations :
        /\ RoutedInOrder(p)
        /\ \A k \in 1..Len(routed[p]) :
            LET e == routed[p][k]
                q == FileOrder[k][1]
                i == FileOrder[k][2]
                n == Len(FileUploads(submission)[q].response.items)
                base == StandardBase(p, e.title)
                extension == Extension(e.originalName)
            IN  (e.outcome # "LookupFailed" /\ e.title # SPECIAL_NAMING_QUESTION_TITLE) =>
                    /\ SubSeq(e.newFileName, 1, Len(base)) = base
                    /\ After(e.newFileName, base)
                           = (IF n > 1 THEN PositionSuffix(i) ELSE <<>>) \o extension

\* C6 witness: three files of the standard question were named, first to third,
\* and in another run a question with a single file
C6_Witness ==
    \E p \in Invocations :
        /\ pc[p] = "done"
        /\ Len(routed[p]) = 3
        /\ \A k \in 1..3 :
               /\ routed[p][k].title = T_UploadQuote
               /\ routed[p][k].outcome = "Moved"
               /\ routed[p][k].originalName = N_ReportJane
        /\ After(routed[p][1].newFileName, StandardBase(p, T_UploadQuote))
               = <<" ", "(", "1", ")", ".", "p", "d", "f">>
        /\ After(routed[p][3].newFileName, StandardBase(p, T_UploadQuote))
               = <<" ", "(", "3", ")", ".", "p", "d", "f">>

\* C6 second case: the only file of a standard question carries no number
C6_SingleFileReached ==
    \E p \in Invocations :
        /\ Len(routed[p]) >= 1
        /\ routed[p][1].title = T_UploadQuote
        /\ routed[p][1].fileCount = 1
        /\ routed[p][1].outcome = "Moved"
        /\ routed[p][1].originalName = N_ReportJane
        /\ After(routed[p][1].newFileName, StandardBase(p, T_UploadQuote))
               = <<".", "p", "d", "f">>

-----------------------------------------------------------------------------
(* Properties of buildFromTemplate *)

\* the value a {key} token stands for: the override, else the base entry, else N/A
TokenValue(key, base, overrides) ==
    IF key \in DOMAIN overrides THEN overrides[key]
    ELSE IF key \in DOMAIN base THEN base[key]
    ELSE NA

\* the segments with every token replaced by its value and the text between
\* tokens copied
RECURSIVE Resolved(_, _, _)
Resolved(segs, base, overrides) ==
    IF segs = <<>> THEN <<>>
    ELSE (IF Head(segs).token THEN TokenValue(Head(segs).text, base, overrides)
          ELSE Head(segs).text) \o Resolved(Tail(segs), base, overrides)

\* C5: for any template, base map and override map, buildFromTemplate returns the
\* template with every {X} token replaced by overrides[X] if X is a key of the
\* overrides, else by base[X] if X is a key of the base, else by 'N/A', and with
\* all other text unchanged.
C5_TemplateResolution ==
    ret.fn = "buildFromTemplate" =>
        ret.value = Resolved(args.segs, args.responseMap, args.additionalPlaceholders)

\* the same statement for templates whose tokens name no inherited property
C5_OwnKeysOnly ==
    (/\ ret.fn = "buildFromTemplate"
     /\ \A k \in 1..Len(args.segs) :
            args.segs[k].token => args.segs[k].text \notin DOMAIN ObjectPrototype) =>
        ret.value = Resolved(args.segs, args.responseMap, args.additionalPlaceholders)

-----------------------------------------------------------------------------
(* Properties of the file naming *)

\* name holds character c
Contains(name, c) == \E i \in 1..Len(name) : name[i] = c

\* C7: the name passed to setName holds none of the characters \ / : " * ? < > |,
\* in either naming branch, for any original name.
C7_NoIllegalCharacter ==
    ret.fn = "newFileName" => \A c \in IllegalChars : ~Contains(ret.value, c)

\* the extension of a file name: from its last '.' to its end, empty without a '.'
ExtensionOf(name) ==
    IF Contains(name, ".") THEN SubSeq(name, LastIndexOf(name, Dot) + 1, Len(name))
    ELSE <<>>

\* the name without its extension
StemOf(name) == SubSeq(name, 1, Len(name) - Len(ExtensionOf(name)))

\* the stem cut at its last ' - ', the whole stem when it holds none
BaseOf(name) ==
    LET stem == StemOf(name)
        separatorIndex == LastIndexOf(stem, Separator)
    IN  IF separatorIndex # -1 THEN SubSeq(stem, 1, separatorIndex) ELSE stem

\* the sanitized prefix of the special branch
SanitizedPrefix(respMap) ==
    Sanitize(buildFromTemplate(FILE_NAME_PREFIX_TEMPLATE, respMap, EmptyObject))

\* the sanitized base name of the standard branch
SanitizedBaseName(questionTitle, respMap) ==
    Sanitize(buildFromTemplate(FILE_NAME_TEMPLATE, respMap,
                               [k \in {QuestionTitleKey} |-> questionTitle]))

\* C9: an original name without '.' has an empty extension: the standard name is
\* the sanitized base plus the disambiguation suffix, the special name is the
\* sanitized prefix, ' - ' and the base, and nothing follows them.
C9_NoDotNoExtension ==
    (ret.fn = "newFileName" /\ ~Contains(args.originalName, ".")) =>
        ret.value =
            IF args.questionTitle = SPECIAL_NAMING_QUESTION_TITLE
            THEN SanitizedPrefix(args.responseMap) \o Separator
                     \o BaseOf(args.originalName)
            ELSE SanitizedBaseName(args.questionTitle, args.responseMap)
                     \o (IF args.fileCount > 1 THEN PositionSuffix(args.index + 1)
                         ELSE <<>>)

\* C10: in the special branch the name is the sanitized prefix, ' - ', the base
\* and the extension, where the extension runs from the last '.' and the base is
\* the rest cut at its last ' - ' (the whole rest when it holds none), so that
\* base and extension do not overlap in the original name.
C10_SpecialBranchNaming ==
    (ret.fn = "newFileName" /\ args.questionTitle = SPECIAL_NAMING_QUESTION_TITLE) =>
        ret.value = SanitizedPrefix(args.responseMap) \o Separator
                        \o BaseOf(args.originalName) \o ExtensionOf(args.originalName)

\* the statement of C10 for the names Google Forms produces for files that have
\* an extension: a '.' in the name and no ' - ' after the last one
C10_DottedNames ==
    (/\ ret.fn = "newFileName"
     /\ args.questionTitle = SPECIAL_NAMING_QUESTION_TITLE
     /\ Contains(args.originalName, ".")
     /\ LastIndexOf(args.originalName, Separator)
            < LastIndexOf(args.originalName, Dot)) =>
        ret.value = SanitizedPrefix(args.responseMap) \o Separator
                        \o BaseOf(args.originalName) \o ExtensionOf(args.originalName)

-----------------------------------------------------------------------------
(* Properties of buildFolderName *)

\* the answer of an item flattened to a trimmed string
FlattenedAnswer(item) == Trim(AnswerText(item.response))

\* the flattened answers of the items kept for the folder name, in order, with
\* the empty ones dropped
RECURSIVE FolderParts(_)
FolderParts(items) ==
    IF items = <<>> THEN <<>>
    ELSE (IF /\ Head(items).type # "FILE_UPLOAD"
             /\ Head(items).title \notin EXCLUDE_FROM_FOLDER_NAME
             /\ FlattenedAnswer(Head(items)) # <<>>
          THEN <<FlattenedAnswer(Head(items))>>
          ELSE <<>>) \o FolderParts(Tail(items))

\* C8: the folder name is the timestamp, '_PENDING_' and the '_'-join of the
\* flattened answers of the items that are neither file uploads nor excluded
\* titles, in submission order, with empty parts dropped.
C8_FolderNameComposition ==
    ret.fn = "buildFolderName" =>
        ret.value = args.timestamp \o PendingMark
                        \o Join(FolderParts(args.itemResponses), Underscore)

\* the statement of C8 for submissions whose list answers have no padding
C8_UnpaddedLists ==
    (/\ ret.fn = "buildFolderName"
     /\ \A k \in 1..Len(args.itemResponses) :
            LET response == args.itemResponses[k].response
            IN  response.kind = "array" =>
                    AnswerText(response) = Trim(AnswerText(response))) =>
        ret.value = args.timestamp \o PendingMark
                        \o Join(FolderParts(args.itemResponses), Underscore)

-----------------------------------------------------------------------------
(* Properties of escapeHtml *)

\* the HTML entity of a character, the character itself when it has none
EntityOf(c) ==
    CASE c = "&" -> <<"&", "a", "m", "p", ";">>
      [] c = "<" -> <<"&", "l", "t", ";">>
      [] c = ">" -> <<"&", "g", "t", ";">>
      [] c = "\"" -> <<"&", "q", "u", "o", "t", ";">>
      [] c = "'" -> <<"&", "#", "0", "3", "9", ";">>
      [] OTHER -> <<c>>

Escaped == {"&", "<", ">", "\"", "'"}

\* the text with each character replaced by its entity
RECURSIVE EntityText(_)
EntityText(text) ==
    IF text = <<>> THEN <<>> ELSE EntityOf(Head(text)) \o EntityText(Tail(text))

\* an entity starts at position i of text
EntityAt(text, i) == \E c \in Escaped : OccursAt(text, EntityOf(c), i - 1)

\* '&lt;b&gt;&quot;hi&quot;&lt;/b&gt;'
X_BoldHiEscaped ==
    <<"&", "l", "t", ";", "b", "&", "g", "t", ";", "&", "q", "u", "o", "t", ";", "h", "i",
      "&", "q", "u", "o", "t", ";", "&", "l", "t", ";", "/", "b", "&", "g", "t", ";">>

\* C11: escapeHtml replaces each & < > " ' by its entity and leaves every other
\* character unchanged; the output holds no raw < > " ' and each of its & begins
\* an entity; '<b>"hi"</b>' gives '&lt;b&gt;&quot;hi&quot;&lt;/b&gt;'; escaping
\* the output again changes nothing exactly when the input holds none of the
\* five characters.
C11_EscapeHtml ==
    ret.fn = "escapeHtml" =>
        /\ ret.value = EntityText(args.text)
        /\ \A i \in 1..Len(ret.value) :
               /\ ret.value[i] \notin {"<", ">", "\"", "'"}
               /\ ret.value[i] = "&" => EntityAt(ret.value, i)
        /\ args.text = X_BoldHi => ret.value = X_BoldHiEscaped
        /\ (escapeHtml(ret.value) = ret.value)
               <=> (\A i \in 1..Len(args.text) : args.text[i] \notin Escaped)

\* C11 witness: a text that holds an & written as an entity and a quote has been
\* escaped, and escaping it again would change it
C11_Witness ==
    /\ ret.fn = "escapeHtml"
    /\ args.text = <<"&", "a", ";", "'">>
    /\ ret.value = <<"&", "a", "m", "p", ";", "a", ";", "&", "#", "0", "3", "9", ";">>
    /\ escapeHtml(ret.value) # ret.value

-----------------------------------------------------------------------------
(* Properties of the notification body *)

StrongOpen == <<"<", "s", "t", "r", "o", "n", "g", ">">>

StrongClose == <<"<", "/", "s", "t", "r", "o", "n", "g", ">">>

LineBreaks == <<"<", "b", "r", "/", ">", "<", "b", "r", "/", ">">>

\* the text shown for an answer: a list joined by ', ', a string as it is, and
\* '<em>No response provided</em>' for no answer
ShownAnswer(response) ==
    IF response.kind = "array" THEN Join(response.items, CommaSpace)
    ELSE IF response.kind = "string" THEN response.str
    ELSE NoResponseProvided

\* the item is neither a file upload nor an excluded title
Shown(item) == item.type # "FILE_UPLOAD" /\ item.title \notin EXCLUDE_FROM_EMAIL_BODY

\* '<strong>' + escaped title + '</strong>: ' + escaped answer + '<br/><br/>'
ColonOutsideFragment(item) ==
    StrongOpen \o EntityText(item.title) \o StrongClose \o <<":", " ">>
        \o EntityText(ShownAnswer(item.response)) \o LineBreaks

\* '<strong>' + escaped title + ':</strong> ' + escaped answer + '<br/><br/>'
ColonInsideFragment(item) ==
    StrongOpen \o EntityText(item.title) \o <<":">> \o StrongClose \o <<" ">>
        \o EntityText(ShownAnswer(item.response)) \o LineBreaks

\* the concatenation, in order, of the fragments of the shown items, with the
\* colon inside or outside the strong element
RECURSIVE Fragments(_, _)
Fragments(items, colonInside) ==
    IF items = <<>> THEN <<>>
    ELSE (IF ~Shown(Head(items)) THEN <<>>
          ELSE IF colonInside THEN ColonInsideFragment(Head(items))
          ELSE ColonOutsideFragment(Head(items)))
             \o Fragments(Tail(items), colonInside)

\* C12 as stated: the body is the concatenation, in submission order, of
\* '<strong>' + escaped title + '</strong>: ' + escaped answer + '<br/><br/>' for
\* each item that is neither a file upload nor an excluded title.
C12_BodyColonOutside ==
    ret.fn = "emailBody" => ret.value = Fragments(args.itemResponses, FALSE)

\* C12 amended: the body is the concatenation, in submission order, of
\* '<strong>' + escaped title + ':</strong> ' + escaped answer + '<br/><br/>' for
\* each item that is neither a file upload nor an excluded title, the colon being
\* inside the strong element, and holds nothing for the other items.
C12_NotificationBody ==
    ret.fn = "emailBody" => ret.value = Fragments(args.itemResponses, TRUE)

\* C12 witness: a body was composed from a shown item with a list answer that
\* needs escaping, an excluded item and a file upload, and is one fragment long
C12_Witness ==
    /\ ret.fn = "emailBody"
    /\ args.itemResponses =
           <<ItemResponse(T_KnowFundingCode, "TEXT", StringResponse(A_Doe)),
             ItemResponse(T_Vendor, "CHECKBOX", ArrayResponse(<<A_Gift, A_Tag>>)),
             ItemResponse(T_UploadQuote, "FILE_UPLOAD", ArrayResponse(<<FileId(1)>>))>>
    /\ ret.value =
           StrongOpen \o T_Vendor \o <<":">> \o StrongClose
               \o <<" ", "G", "i", "f", "t", ",", " ", "&", "l", "t", ";", "i", "&", "g",
                    "t", ";">> \o LineBreaks

-----------------------------------------------------------------------------
(* Properties of the response map *)

\* the answer as a string: a list joined by ', ', nothing for no answer
AnswerAsString(response) ==
    IF response.kind = "null" THEN <<>>
    ELSE IF response.kind = "array" THEN Join(response.items, CommaSpace)
    ELSE response.str

\* the positions of the items titled title
Occurrences(items, title) == {i \in 1..Len(items) : items[i].title = title}

\* the titles of the questions that are not file uploads
QuestionTitles(items) ==
    {items[i].title : i \in {j \in 1..Len(items) : items[j].type # "FILE_UPLOAD"}}

\* C13: the response map has one entry for every non-file question title; the
\* entry holds the answer as a string (a list joined by ', ', '' for null), and
\* when the title occurs more than once, the value of its last occurrence.
C13_ResponseMap ==
    ret.fn = "responseMap" =>
        \A title \in QuestionTitles(args.itemResponses) :
            /\ title \in DOMAIN ret.value
            /\ ret.value[title] =
                   AnswerAsString(
                       args.itemResponses[Max(Occurrences(args.itemResponses, title))]
                           .response)

\* C13 witness: a map was built from a list answer, a null answer, and a second
\* answer to the question of the first
C13_Witness ==
    /\ ret.fn = "responseMap"
    /\ args.itemResponses =
           <<ItemResponse(T_Vendor, "CHECKBOX", ArrayResponse(<<A_Gift, A_Doe>>)),
             ItemResponse(T_FirstName, "TEXT", NullResponse),
             ItemResponse(T_Vendor, "TEXT", StringResponse(A_Acme))>>
    /\ ret.value[T_Vendor] = A_Acme
    /\ ret.value[T_FirstName] = <<>>

\* C13 second case: a list answer is the only one of its title
C13_ListJoined ==
    /\ ret.fn = "responseMap"
    /\ args.itemResponses =
           <<ItemResponse(T_Vendor, "CHECKBOX", ArrayResponse(<<A_Gift, A_Doe>>))>>
    /\ ret.value[T_Vendor] = <<"G", "i", "f", "t", ",", " ", "D", "o", "e">>

-----------------------------------------------------------------------------
(* The order of the steps of onFormSubmit *)

\* a is an initial part of b
IsPrefix(a, b) == Len(a) <= Len(b) /\ SubSeq(b, 1, Len(a)) = a

\* the statements of the try block that p has executed, in order
TryStatements(p) == SelectSeq(steps[p], LAMBDA l : l # "catch")

\* p has executed statement l to its end
Executed(p, l) == raisedAt[p] # l /\ \E k \in 1..Len(steps[p]) : steps[p][k] = l

\* a file has been renamed or moved
FilesTouched ==
    \E f \in DOMAIN driveFiles :
        driveFiles[f].parent # 0 \/ driveFiles[f].name \notin OriginalNames

\* C14: in every run the steps are executed in one order: the timestamp is
\* generated first, once, and is the one in the folder name; the response map
\* is built and the folder name composed before the folder is created; the
\* folder exists before any file is looked up, renamed or moved; and the
\* notification is sent only after every uploaded file has been attempted.
C14_StepOrdering ==
    \A p \in Invocations :
        /\ IsPrefix(TryStatements(p), Statements)
        /\ Executed(p, "folderName") =>
               /\ Executed(p, "timestamp")
               /\ folderName[p] = buildFolderName(submission, timestamp[p])
               /\ IsPrefix(timestamp[p] \o PendingMark, folderName[p])
        /\ newFolder[p] # 0 =>
               /\ Executed(p, "responseMap") /\ Executed(p, "folderName")
               /\ responseMap[p] = BuildResponseMap(submission)
               /\ newFolder[p] \in 1..Len(folders)
               /\ folders[newFolder[p]].name = folderName[p]
        /\ routed[p] # <<>> => newFolder[p] # 0
        /\ (p = 1 /\ FilesTouched) => newFolder[p] # 0
        /\ NotificationsSent(p) > 0 =>
               /\ Len(routed[p]) = Len(FileOrder)
               /\ RoutedInOrder(p)
               /\ mail[p][1].subject = emailSubject[p]

\* C14 witness: a run over a submission with files has sent its notification
\* after attempting all of them, into a folder named with its timestamp
C14_Witness ==
    \E p \in Invocations :
        /\ pc[p] = "done"
        /\ raisedAt[p] = "none"
        /\ steps[p] = Statements
        /\ Len(FileOrder) = MaxFiles
        /\ Len(routed[p]) = MaxFiles
        /\ routed[p][2].outcome = "LookupFailed"
        /\ NotificationsSent(p) = 1
        /\ folders[newFolder[p]].name = buildFolderName(submission, timestamp[p])

-----------------------------------------------------------------------------
(* The parts of the folder name *)

\* the folder name after the timestamp and '_PENDING_'
PartsText == After(ret.value, args.timestamp \o PendingMark)

\* every '_'-separated part of text is non-empty and has no white space at
\* either end (no answer of the enumerated items holds a '_')
PartsTrimmed(text) ==
    \A i \in 1..Len(text) :
        /\ text[i] = "_" =>
               /\ i > 1 /\ i < Len(text)
               /\ text[i + 1] # "_"
        /\ text[i] \in WhiteSpace =>
               /\ i > 1 /\ i < Len(text)
               /\ text[i - 1] # "_" /\ text[i + 1] # "_"

\* C15: every part of the folder name is trimmed and non-empty, whether the
\* answer it comes from is a scalar or a list; an item whose flattened answer is
\* empty or white space only contributes no part and no extra '_'.
C15_PartsTrimmed ==
    ret.fn = "buildFolderName" => PartsTrimmed(PartsText)

\* the statement of C15 for submissions without list answers
C15_ScalarAnswers ==
    (/\ ret.fn = "buildFolderName"
     /\ \A k \in 1..Len(args.itemResponses) :
            args.itemResponses[k].response.kind # "array") =>
        PartsTrimmed(PartsText)

-----------------------------------------------------------------------------
(* Braces in templates *)

\* the 1-based position of the first element of text at or after i that is in
\* chars, 0 when there is none
FirstOf(text, chars, i) ==
    LET found == {j \in i..Len(text) : text[j] \in chars}
    IN  IF found = {} THEN 0 ELSE Min(found)

\* what the lookup of line 187 gives for the key of a span
ValueOf(key) ==
    LookupOrNA(SpreadMerge(args.responseMap, args.additionalPlaceholders), key)

\* Resolution in which a token is a '{', one or more characters that are not
\* braces, and a '}': a '{' followed by another '{' before any '}', or by no '}',
\* is copied.
RECURSIVE OwnBraceResolved(_, _)
OwnBraceResolved(t, i) ==
    IF i > Len(t) THEN <<>>
    ELSE LET brace == FirstOf(t, {"{", "}"}, i + 1)
         IN  IF t[i] = "{" /\ brace > i + 1 /\ t[brace] = "}"
             THEN ValueOf(SubSeq(t, i + 1, brace - 1)) \o OwnBraceResolved(t, brace + 1)
             ELSE <<t[i]>> \o OwnBraceResolved(t, i + 1)

\* Resolution chunk by chunk, a chunk being the text up to the next '}': the
\* first '{' of the chunk opens a token that runs to that '}', whatever lies in
\* between, unless nothing lies in between; text after the last '}' is copied.
RECURSIVE FirstBraceResolved(_, _)
FirstBraceResolved(t, i) ==
    IF i > Len(t) THEN <<>>
    ELSE LET close == FirstOf(t, {"}"}, i)
             open == FirstOf(t, {"{"}, i)
         IN  IF close = 0 THEN SubSeq(t, i, Len(t))
             ELSE IF open # 0 /\ open < close - 1
             THEN SubSeq(t, i, open - 1) \o ValueOf(SubSeq(t, open + 1, close - 1))
                      \o FirstBraceResolved(t, close + 1)
             ELSE SubSeq(t, i, close) \o FirstBraceResolved(t, close + 1)

\* C16 as stated: an opening '{' that is not closed by its own '}' is never part
\* of a substituted span and is copied to the output; in '{A {B}' only '{B}' is a
\* placeholder.
C16_OwnBraceOnly ==
    ret.fn = "buildFromTemplate" => ret.value = OwnBraceResolved(args.template, 1)

\* C16 amended: an opening '{' followed by no '}' is copied unchanged with the
\* text after it; otherwise the first '{' after the previous '}' opens a span
\* that runs to the next '}' whatever lies in between, another '{' included,
\* provided at least one character lies in between: '{A {B}' is one placeholder
\* whose key is 'A {B'.
C16_FirstBraceOpens ==
    ret.fn = "buildFromTemplate" => ret.value = FirstBraceResolved(args.template, 1)

\* C16 witness: '{A {B}' was resolved with a map that answers A and B, and the
\* whole of it was replaced by 'N/A'
C16_Witness ==
    /\ ret.fn = "buildFromTemplate"
    /\ args.template = <<"{", "A", " ", "{", "B", "}">>
    /\ args.responseMap # EmptyObject
    /\ ret.value = NA

\* C16 second case: an opening '{' without any '}' after it was copied
C16_UnclosedCopied ==
    /\ ret.fn = "buildFromTemplate"
    /\ args.template = <<"{", "A", "}", " ", "{", "B">>
    /\ args.responseMap # EmptyObject
    /\ ret.value = <<"x", " ", "{", "B">>

\* C17: a token whose inner text is a key of neither map, the empty token '{}'
\* included, is replaced by 'N/A': the output of a template that is one such
\* token is 'N/A'.
C17_UnmatchedGivesNA ==
    (/\ ret.fn = "buildFromTemplate"
     /\ Len(args.template) >= 2
     /\ args.template[1] = "{"
     /\ FirstOf(args.template, {"{", "}"}, 2) = Len(args.template)
     /\ args.template[Len(args.template)] = "}"
     /\ SubSeq(args.template, 2, Len(args.template) - 1)
            \notin DOMAIN args.responseMap \cup DOMAIN args.additionalPlaceholders) =>
        ret.value = NA

\* the statement of C17 for tokens that are not empty
C17_NonEmptyTokens ==
    (/\ ret.fn = "buildFromTemplate"
     /\ Len(args.template) >= 3
     /\ args.template[1] = "{"
     /\ FirstOf(args.template, {"{", "}"}, 2) = Len(args.template)
     /\ args.template[Len(args.template)] = "}"
     /\ SubSeq(args.template, 2, Len(args.template) - 1)
            \notin DOMAIN args.responseMap \cup DOMAIN args.additionalPlaceholders) =>
        ret.value = NA

-----------------------------------------------------------------------------
(* Values that hold tokens *)

\* the number of places where pat occurs in text
Occurs(text, pat) == Cardinality({i \in 0..Len(text) : OccursAt(text, pat, i)})

\* the number of tokens of a call whose value is the text '{B}'
TokensWithTokenValue ==
    Cardinality({k \in 1..Len(args.segs) :
                    /\ args.segs[k].token
                    /\ TokenValue(args.segs[k].text, args.responseMap,
                                  args.additionalPlaceholders) = V_TokenB})

\* C18: a substituted value that holds the text of a token is put into the output
\* as it is and is not resolved (the output holds '{B}' once for each token whose
\* value is '{B}', whether or not B is a key), and the call leaves the template
\* and both maps as they were.
C18_NoRecursionPure ==
    [][(ret.fn = "none" /\ ret'.fn = "buildFromTemplate" /\ args.segs # <<>>) =>
          /\ Occurs(ret'.value, V_TokenB) = TokensWithTokenValue
          /\ args' = args]_vars

\* C18 witness: the template '{A} - {B}' was resolved with A standing for '{B}'
\* and B for 'x'
C18_Witness ==
    /\ ret.fn = "buildFromTemplate"
    /\ args.segs = <<TokenSegment(K_A), LiteralSegment(Separator), TokenSegment(K_B)>>
    /\ args.responseMap = [k \in {K_A, K_B} |-> IF k = K_A THEN V_TokenB ELSE V_x]
    /\ args.additionalPlaceholders = EmptyObject
    /\ ret.value = <<"{", "B", "}", " ", "-", " ", "x">>

-----------------------------------------------------------------------------
(* Invocations that run together *)

\* the invocations that have created their folder
FolderCreators == {p \in Invocations : newFolder[p] # 0}

\* C19: two invocations for one submission are not kept apart by the handler:
\* each one that reaches the folder creation creates a folder of its own, in
\* any interleaving and whatever the other has done (no lock or check disables
\* the creation), so the target drive holds one folder per invocation.
C19_NoDeduplication ==
    /\ Len(folders) = Cardinality(FolderCreators)
    /\ \A p \in Invocations :
           /\ pc[p] = "createFolder" => ENABLED CreateFolder(p)
           /\ newFolder[p] # 0 =>
                  /\ newFolder[p] \in 1..Len(folders)
                  /\ folders[newFolder[p]] = [name |-> folderName[p], createdBy |-> p]
    /\ \A p, q \in FolderCreators : p # q => newFolder[p] # newFolder[q]

\* C19 witness: both invocations of a two-trigger project have ended, and the
\* drive holds two folders of the same name for the one submission
C19_Witness ==
    /\ Len(triggers) = 2
    /\ \A p \in Invocations : pc[p] = "done" /\ raisedAt[p] = "none"
    /\ Len(folders) = 2
    /\ folders[1].name = folders[2].name
    /\ folders[1].createdBy # folders[2].createdBy

-----------------------------------------------------------------------------
(* The state of the files after a run *)

\* file f carries an original name and is outside every folder
Untouched(f) == driveFiles[f].parent = 0 /\ driveFiles[f].name \in OriginalNames

\* file f carries the name p generated for it and is in the folder p created
Routed(p, f) ==
    /\ newFolder[p] # 0
    /\ driveFiles[f].parent = newFolder[p]
    /\ \E k \in 1..Len(routed[p]) :
           /\ routed[p][k].fileId = f
           /\ routed[p][k].outcome # "LookupFailed"
           /\ driveFiles[f].name = routed[p][k].newFileName

\* C20: after a run every uploaded file is either renamed to its generated name
\* and in the destination folder, or under its original name in its original
\* place; a file whose processing failed is unchanged.
C20_FileAtomicity ==
    \A p \in Invocations :
        Ended(p) => \A f \in DOMAIN driveFiles : Routed(p, f) \/ Untouched(f)

\* the statement of C20 for runs in which no moveTo raised
C20_UnlessMoveFailed ==
    \A p \in Invocations :
        (/\ Ended(p)
         /\ \A k \in 1..Len(routed[p]) : routed[p][k].outcome # "MoveFailed") =>
            \A f \in DOMAIN driveFiles : Routed(p, f) \/ Untouched(f)

-----------------------------------------------------------------------------
(* The names of the files of one run *)

\* the positions of the files p has renamed and moved
MovedByRun(p) == {k \in 1..Len(routed[p]) : routed[p][k].outcome = "Moved"}

\* C21: no two files that a run has renamed and moved carry the same final
\* name, whichever questions they were uploaded to.
C21_NoNameCollision ==
    \A p \in Invocations :
        \A k, l \in MovedByRun(p) :
            k # l => routed[p][k].newFileName # routed[p][l].newFileName

\* the statement of C21 for pairs of files of which one at least was uploaded to
\* a standard question
C21_StandardFiles ==
    \A p \in Invocations :
        \A k, l \in MovedByRun(p) :
            (/\ k # l
             /\ \/ routed[p][k].title # SPECIAL_NAMING_QUESTION_TITLE
                \/ routed[p][l].title # SPECIAL_NAMING_QUESTION_TITLE) =>
                routed[p][k].newFileName # routed[p][l].newFileName

-----------------------------------------------------------------------------
(* The top-level boundary *)

\* C22: onFormSubmit never lets an exception out to its caller, a failure of the
\* alert to the administrator included.
C22_NothingPropagates ==
    \A p \in Invocations : pc[p] # "propagated"

\* an exception leaves onFormSubmit only from the alert of the catch block: the
\* try block had raised, the catch block was entered, and no mail was sent
C22_OnlyFromTheAlert ==
    \A p \in Invocations :
        pc[p] = "propagated" =>
            /\ raisedAt[p] \in OutsidePerFileTry
            /\ AlertAttempts(p) = 1
            /\ mail[p] = <<>>

=============================================================================
